---- MODULE Spec2Model ----
(***************************************************************************)
(* The stream bridge of coze2openai: readStream in src/app.js, the loop    *)
(* that turns the upstream's newline-delimited event frames into OpenAI    *)
(* server-sent-event chunks on the outbound response `res`.                *)
(*                                                                         *)
(* Text is a sequence of characters; a character is a one-character string *)
(* or the name of a code point outside ASCII ("U+00E9", "U+FFFD"): U+ and  *)
(* exactly four hexadecimal digits, also inside a longer text.             *)
(* Upstream bytes are a sequence of bytes; a byte is the one-character     *)
(* string of an ASCII byte, or "0xC3" / "0xA9" (the UTF-8 encoding of      *)
(* U+00E9).                                                                *)
(***************************************************************************)
EXTENDS Integers, Sequences, FiniteSets, TLC

VARIABLES
    stream,     \* the bytes the upstream sends on this connection, in order
    pos,        \* how many of them reader.read() has handed over so far
    cut,        \* the size of the first arrival, 0 before it
    pending,    \* TextDecoder: bytes of an unfinished multi-byte sequence
    buffer,     \* `buffer`: decoded text not yet resolved into a line
    lines,      \* the lines the for-loop has dispatched so far, in order
    out,        \* the calls made on `res`, in order
    pc,         \* readStream: "reading", or how it was left
    connected,  \* the client's connection is open
    req,        \* the inbound request: headers, body, uploaded file; and BOT_ID
    fetched,    \* the call made on the upstream, NoCall before it
    reply,      \* what the upstream answered, NoReply before it
    sent,       \* the HTTP responses sent with res.status/json/send, in order
    hpc,        \* the request handler: "start", where it waits, or "done"
    effects,    \* the handler's other calls: file uploads, fs.unlink, in order
    conns,      \* two streamed responses in progress at once, and their scopes
    locals      \* the handler's local variables while it awaits an upload

svars == <<stream, pos, cut, pending, buffer, lines, out, pc, connected>>
hvars == <<req, fetched, reply, sent, hpc, effects, locals>>
vars ==
    <<stream, pos, cut, pending, buffer, lines, out, pc, connected, req, fetched, reply,
      sent, hpc, effects, conns, locals>>

-----------------------------------------------------------------------------
(* Bounds *)

MaxFrames == 2      \* frames in one upstream stream

-----------------------------------------------------------------------------
(* Text and bytes *)

Chars(t) == [i \in 1..Len(t) |-> SubSeq(t, i, i)]

EAcute == "U+00E9"
Replacement == "U+FFFD"
Lead == "0xC3"
Cont == "0xA9"

\* The UTF-8 encoding of text[lo..hi]
RECURSIVE Utf8Range(_, _, _)
Utf8Range(text, lo, hi) ==
    IF lo > hi THEN <<>>
    ELSE IF lo = hi THEN (IF text[lo] = EAcute THEN <<Lead, Cont>> ELSE <<text[lo]>>)
    ELSE LET mid == (lo + hi) \div 2
         IN  Utf8Range(text, lo, mid) \o Utf8Range(text, mid + 1, hi)

Utf8(text) == Utf8Range(text, 1, Len(text))

\* What the decoder emits for bytes[i], given the bytes it held back (pend)
\* before bytes[1]. A lead byte is held back until the next byte arrives, in
\* this call or a later one; with its continuation byte it is U+00E9, and
\* without it U+FFFD. A continuation byte that follows no lead byte is U+FFFD.
Skip == "skip"

DecodeAt(pend, bytes, i) ==
    LET held == IF i = 1 THEN pend = <<Lead>> ELSE bytes[i - 1] = Lead
        b == bytes[i]
    IN  CASE b = Lead -> IF i < Len(bytes) /\ bytes[i + 1] /= Cont
                         THEN Replacement ELSE Skip
          [] b = Cont -> IF held THEN EAcute ELSE Replacement
          [] OTHER -> b

IsChar(c) == c /= Skip

\* new TextDecoder(); decoder.decode(value, { stream: true })
Decode(pend, bytes) ==
    [text |-> (IF pend = <<Lead>> /\ bytes /= <<>> /\ bytes[1] /= Cont
               THEN <<Replacement>> ELSE <<>>)
              \o SelectSeq([i \in 1..Len(bytes) |-> DecodeAt(pend, bytes, i)], IsChar),
     pending |-> IF bytes = <<>> THEN pend
                 ELSE IF bytes[Len(bytes)] = Lead THEN <<Lead>> ELSE <<>>]

\* String.prototype.split("\n")
RECURSIVE Split(_)
Split(text) ==
    IF \A i \in 1..Len(text) : text[i] /= "\n" THEN <<text>>
    ELSE LET k == CHOOSE i \in 1..Len(text) :
                    text[i] = "\n" /\ \A j \in 1..(i - 1) : text[j] /= "\n"
         IN  <<SubSeq(text, 1, k - 1)>> \o Split(SubSeq(text, k + 1, Len(text)))

IsSpace(c) == c \in {" ", "\t", "\r", "\n"}

\* String.prototype.trim()
Trim(text) ==
    IF \A i \in 1..Len(text) : IsSpace(text[i]) THEN <<>>
    ELSE LET a == CHOOSE i \in 1..Len(text) :
                    ~IsSpace(text[i]) /\ \A j \in 1..(i - 1) : IsSpace(text[j])
             b == CHOOSE i \in 1..Len(text) :
                    ~IsSpace(text[i]) /\ \A j \in (i + 1)..Len(text) : IsSpace(text[j])
         IN  SubSeq(text, a, b)

\* String.prototype.startsWith
StartsWith(text, prefix) ==
    Len(text) >= Len(prefix) /\ SubSeq(text, 1, Len(prefix)) = prefix

-----------------------------------------------------------------------------
(* JavaScript values: undefined, strings, numbers, objects *)

Undef == [t |-> "undefined"]
Null == [t |-> "null"]
Str(s) == [t |-> "string", v |-> s]
Num(n) == [t |-> "number", v |-> n]
Obj(r) == [t |-> "object", v |-> r]

\* o.k : undefined when o has no property k
Get(o, k) == IF o.t = "object" /\ k \in DOMAIN o.v THEN o.v[k] ELSE Undef

\* x === "literal"
Is(x, s) == x.t = "string" /\ x.v = s

\* ToBoolean(x), as in `x || y` and `x && y`
Truthy(x) ==
    CASE x.t \in {"undefined", "null"} -> FALSE
      [] x.t = "string" -> x.v /= ""
      [] x.t = "number" -> x.v /= 0
      [] x.t = "boolean" -> x.v
      [] OTHER -> TRUE

Digit(d) == SubSeq("0123456789", d + 1, d + 1)

RECURSIVE Decimal(_)
Decimal(n) == IF n < 10 THEN Digit(n) ELSE Decimal(n \div 10) \o Digit(n % 10)

\* ToStr(x), as in `x + " "`
ToStr(x) ==
    CASE x.t = "undefined" -> "undefined"
      [] x.t = "null" -> "null"
      [] x.t = "string" -> x.v
      [] x.t = "number" -> Decimal(x.v)
      [] OTHER -> "[object Object]"

\* JSON.stringify drops the properties whose value is undefined
Json(r) == [k \in {f \in DOMAIN r : r[f].t /= "undefined"} |-> r[k]]

-----------------------------------------------------------------------------
(* The upstream's frames: the JSON payloads and what JSON.parse makes of them *)

JMsgHi ==
    Chars("{\"event\":\"message\",\"message\":{\"role\":\"assistant\",\"type\":\"answer\",\"content\":\"hi\"}}")
OMsgHi ==
    Obj([event |-> Str("message"),
         message |-> Obj([role |-> Str("assistant"), type |-> Str("answer"),
                          content |-> Str("hi")])])

JMsgAccent ==
    Chars("{\"event\":\"message\",\"message\":{\"role\":\"assistant\",\"type\":\"answer\",\"content\":\"")
    \o <<EAcute>> \o Chars("\"}}")
OMsgAccent ==
    Obj([event |-> Str("message"),
         message |-> Obj([role |-> Str("assistant"), type |-> Str("answer"),
                          content |-> Str(EAcute)])])

\* the same payload with its two content bytes decoded apart from each other
JMsgBroken ==
    Chars("{\"event\":\"message\",\"message\":{\"role\":\"assistant\",\"type\":\"answer\",\"content\":\"")
    \o <<Replacement, Replacement>> \o Chars("\"}}")
OMsgBroken ==
    Obj([event |-> Str("message"),
         message |-> Obj([role |-> Str("assistant"), type |-> Str("answer"),
                          content |-> Str(Replacement \o Replacement)])])

JMsgEmpty ==
    Chars("{\"event\":\"message\",\"message\":{\"role\":\"assistant\",\"type\":\"answer\",\"content\":\"\"}}")
OMsgEmpty ==
    Obj([event |-> Str("message"),
         message |-> Obj([role |-> Str("assistant"), type |-> Str("answer"),
                          content |-> Str("")])])

JMsgVerbose ==
    Chars("{\"event\":\"message\",\"message\":{\"role\":\"assistant\",\"type\":\"verbose\",\"content\":\"v\"}}")
OMsgVerbose ==
    Obj([event |-> Str("message"),
         message |-> Obj([role |-> Str("assistant"), type |-> Str("verbose"),
                          content |-> Str("v")])])

JMsgImage ==
    Chars("{\"event\":\"message\",\"message\":{\"role\":\"assistant\",\"content_type\":\"image\",\"content\":\"\",\"image\":{\"url\":\"u\",\"type\":\"image/png\"}}}")
OMsgImage ==
    Obj([event |-> Str("message"),
         message |-> Obj([role |-> Str("assistant"), content_type |-> Str("image"),
                          content |-> Str(""),
                          image |-> Obj([url |-> Str("u"), type |-> Str("image/png")])])])

JMsgImageBare ==
    Chars("{\"event\":\"message\",\"message\":{\"role\":\"assistant\",\"content_type\":\"image\",\"content\":\"pic\"}}")
OMsgImageBare ==
    Obj([event |-> Str("message"),
         message |-> Obj([role |-> Str("assistant"), content_type |-> Str("image"),
                          content |-> Str("pic")])])

JMsgNoBody == Chars("{\"event\":\"message\"}")
OMsgNoBody == Obj([event |-> Str("message")])

JDone == Chars("{\"event\":\"done\"}")
ODone == Obj([event |-> Str("done")])

JPing == Chars("{\"event\":\"ping\"}")
OPing == Obj([event |-> Str("ping")])

JCreated == Chars("{\"event\":\"conversation.chat.created\"}")
OCreated == Obj([event |-> Str("conversation.chat.created")])

JError == Chars("{\"event\":\"error\",\"code\":7,\"message\":\"m\"}")
OError == Obj([event |-> Str("error"), code |-> Num(7), message |-> Str("m")])

JErrorInfo ==
    Chars("{\"event\":\"error\",\"code\":7,\"message\":\"m\",\"error_information\":{\"err_msg\":\"why\"}}")
OErrorInfo ==
    Obj([event |-> Str("error"), code |-> Num(7), message |-> Str("m"),
         error_information |-> Obj([err_msg |-> Str("why")])])

JTruncated == Chars("{\"event\":")

\* JSON.parse(line): the value, or a SyntaxError
JSONParse(text) ==
    CASE text = JMsgHi -> [ok |-> TRUE, value |-> OMsgHi]
      [] text = JMsgAccent -> [ok |-> TRUE, value |-> OMsgAccent]
      [] text = JMsgBroken -> [ok |-> TRUE, value |-> OMsgBroken]
      [] text = JMsgEmpty -> [ok |-> TRUE, value |-> OMsgEmpty]
      [] text = JMsgVerbose -> [ok |-> TRUE, value |-> OMsgVerbose]
      [] text = JMsgImage -> [ok |-> TRUE, value |-> OMsgImage]
      [] text = JMsgImageBare -> [ok |-> TRUE, value |-> OMsgImageBare]
      [] text = JMsgNoBody -> [ok |-> TRUE, value |-> OMsgNoBody]
      [] text = JDone -> [ok |-> TRUE, value |-> ODone]
      [] text = JPing -> [ok |-> TRUE, value |-> OPing]
      [] text = JCreated -> [ok |-> TRUE, value |-> OCreated]
      [] text = JError -> [ok |-> TRUE, value |-> OError]
      [] text = JErrorInfo -> [ok |-> TRUE, value |-> OErrorInfo]
      [] OTHER -> [ok |-> FALSE, value |-> Undef]

-----------------------------------------------------------------------------
(* The calls readStream makes on the outbound response *)

RequestModel == Str("coze")
Placeholder == "[U+56FEU+7247]"

\* res.write("data: " + JSON.stringify(payload) + "\n\n"); id and created, which
\* are read from the clock, are left out of the payload
WriteCall(payload) == [call |-> "write", data |-> payload]
\* res.write("data: [DONE]\n\n")
SentinelCall == [call |-> "write", data |-> Str("[DONE]")]
\* res.end()
EndCall == [call |-> "end"]
\* res.setHeader(name, value)
SetHeaderCall(name, value) == [call |-> "setHeader", name |-> name, value |-> value]
\* res.flushHeaders()
FlushHeadersCall == [call |-> "flushHeaders"]
\* res.set(name, value)
SetCall(name, value) == [call |-> "set", name |-> name, value |-> value]

Chunk(delta, finish) ==
    Obj([object |-> Str("chat.completion.chunk"),
         model |-> RequestModel,
         choices |-> <<[index |-> 0, delta |-> Json(delta), finish_reason |-> finish]>>])

ErrorEnvelope(errorMsg) ==
    Obj([error |-> Json([error |-> Str("Unexpected response from Coze API."),
                         message |-> errorMsg])])

\* What one pass of the for-loop body does with a parsed event whose `event`
\* is "message": the calls on res, or a TypeError
OnMessage(chunkObj) ==
    LET message == Get(chunkObj, "message") IN
    IF message.t = "undefined" THEN [calls |-> <<>>, threw |-> TRUE]
    ELSE IF ~(Is(Get(message, "role"), "assistant")
              /\ (Is(Get(message, "type"), "answer")
                  \/ Is(Get(message, "content_type"), "image")))
    THEN [calls |-> <<>>, threw |-> FALSE]
    ELSE LET chunkType == IF Truthy(Get(message, "content_type"))
                          THEN Get(message, "content_type") ELSE Str("text")
             image == Get(message, "image")
             chunkContent == IF Is(chunkType, "image") /\ Truthy(image)
                             THEN Get(image, "url") ELSE Get(message, "content")
         IN  IF Is(chunkContent, "") THEN [calls |-> <<>>, threw |-> FALSE]
             ELSE IF ~Is(chunkType, "image")
             THEN [calls |-> <<WriteCall(Chunk([content |-> chunkContent], Null))>>,
                   threw |-> FALSE]
             ELSE IF image.t = "undefined" THEN [calls |-> <<>>, threw |-> TRUE]
             ELSE [calls |-> <<WriteCall(Chunk(
                       [content |-> Str(Placeholder),
                        image |-> Obj(Json(
                            [url |-> chunkContent,
                             type |-> IF Truthy(Get(image, "type"))
                                      THEN Get(image, "type")
                                      ELSE Str("image/jpeg")]))],
                       Null))>>,
                   threw |-> FALSE]

\* The done branch without its sentinel write
OnDoneNoSentinel ==
    [calls |-> <<WriteCall(Chunk([k \in {} |-> Undef], Str("stop"))), EndCall>>,
     threw |-> FALSE]

\* event === "done"
OnDone ==
    [calls |-> <<WriteCall(Chunk([k \in {} |-> Undef], Str("stop"))), SentinelCall, EndCall>>,
     threw |-> FALSE]

\* The error branch closing the stream the way the done branch does
OnErrorStopping(chunkObj) ==
    LET errorMsg ==
            IF Truthy(Get(chunkObj, "error_information"))
            THEN Get(Get(chunkObj, "error_information"), "err_msg")
            ELSE Str(ToStr(Get(chunkObj, "code")) \o " "
                     \o ToStr(Get(chunkObj, "message")))
    IN  [calls |-> <<WriteCall(ErrorEnvelope(errorMsg)),
                     WriteCall(Chunk([k \in {} |-> Undef], Str("stop"))),
                     SentinelCall, EndCall>>,
         threw |-> FALSE]

\* event === "error"
OnError(chunkObj) ==
    LET errorMsg ==
            IF Truthy(Get(chunkObj, "error_information"))
            THEN Get(Get(chunkObj, "error_information"), "err_msg")
            ELSE Str(ToStr(Get(chunkObj, "code")) \o " "
                     \o ToStr(Get(chunkObj, "message")))
    IN  [calls |-> <<WriteCall(ErrorEnvelope(errorMsg)), SentinelCall, EndCall>>,
         threw |-> FALSE]

\* The first half of the for-loop body: the parsed event of a complete line,
\* or undefined when the line is skipped with `continue`
ParseLine(raw) ==
    LET line == Trim(raw) IN
    IF ~StartsWith(line, Chars("data:")) THEN Undef
    ELSE LET payload == Trim(SubSeq(line, 6, Len(line)))
             parsed == JSONParse(payload)
         IN  IF StartsWith(payload, <<"{">>) /\ parsed.ok THEN parsed.value ELSE Undef

\* The for-loop body with a final else that gives up on an unknown event
HandleLineClosing(raw) ==
    LET chunkObj == ParseLine(raw)
        event == Get(chunkObj, "event")
    IN  CASE chunkObj.t = "undefined" -> [calls |-> <<>>, threw |-> FALSE]
          [] Is(event, "message") -> OnMessage(chunkObj)
          [] Is(event, "done") -> OnDone
          [] Is(event, "error") -> OnError(chunkObj)
          [] OTHER -> [calls |-> <<>>, threw |-> TRUE]

\* The body of the for-loop for one complete line
HandleLine(raw) ==
    LET chunkObj == ParseLine(raw)
        event == Get(chunkObj, "event")
    IN  CASE chunkObj.t = "undefined" -> [calls |-> <<>>, threw |-> FALSE]
          [] Is(event, "message") -> OnMessage(chunkObj)
          [] Is(event, "done") -> OnDone
          [] Is(event, "error") -> OnError(chunkObj)
          [] OTHER -> [calls |-> <<>>, threw |-> FALSE]

\* The for-loop over lines[0 .. length-2]: it stops at the first exception
RECURSIVE ForLoop(_, _)
ForLoop(ls, i) ==
    IF i > Len(ls) - 1 THEN [calls |-> <<>>, threw |-> FALSE, handled |-> <<>>]
    ELSE LET r == HandleLine(ls[i]) IN
         IF r.threw THEN [calls |-> r.calls, threw |-> TRUE, handled |-> <<ls[i]>>]
         ELSE LET rest == ForLoop(ls, i + 1)
              IN  [calls |-> r.calls \o rest.calls, threw |-> rest.threw,
                   handled |-> <<ls[i]>> \o rest.handled]

\* A turn of the while-loop that never cuts the buffer back to its last line
OnDataAppending(st, value) ==
    LET d == Decode(st.pending, value)
        text == st.buffer \o d.text
        ls == Split(text)
        r == ForLoop(ls, 1)
    IN  [pending |-> d.pending,
         buffer |-> text,
         lines |-> st.lines \o r.handled,
         out |-> st.out \o r.calls \o (IF r.threw THEN <<EndCall>> ELSE <<>>),
         pc |-> IF r.threw THEN "caught" ELSE "reading"]

\* One turn of the while-loop after reader.read() returned `value`
OnData(st, value) ==
    LET d == Decode(st.pending, value)
        text == st.buffer \o d.text
        ls == Split(text)
        r == ForLoop(ls, 1)
    IN  [pending |-> d.pending,
         buffer |-> IF r.threw THEN text ELSE ls[Len(ls)],
         lines |-> st.lines \o r.handled,
         out |-> st.out \o r.calls \o (IF r.threw THEN <<EndCall>> ELSE <<>>),
         pc |-> IF r.threw THEN "caught" ELSE "reading"]

\* The state readStream starts from: the header of a streamed reply set on
\* res, then the reader, the decoder and the empty buffer
Fresh ==
    [pending |-> <<>>, buffer |-> <<>>, lines |-> <<>>,
     out |-> <<SetHeaderCall("Content-Type", "text/event-stream")>>, pc |-> "reading"]

-----------------------------------------------------------------------------
(* The request handler of POST /v1/chat/completions: authorization, the    *)
(* upstream request built from the inbound messages, and the reply to a    *)
(* request that does not stream                                            *)

MaxMessages == 3    \* messages in one inbound request

Bool(b) == [t |-> "boolean", v |-> b]
Arr(s) == [t |-> "array", v |-> s]

\* String.prototype.split(sep), sep a single character
RECURSIVE SplitBy(_, _)
SplitBy(text, sep) ==
    IF \A i \in 1..Len(text) : text[i] /= sep THEN <<text>>
    ELSE LET k == CHOOSE i \in 1..Len(text) :
                    text[i] = sep /\ \A j \in 1..(i - 1) : text[j] /= sep
         IN  <<SubSeq(text, 1, k - 1)>> \o SplitBy(SubSeq(text, k + 1, Len(text)), sep)

\* The bearer token check: the token, or the errmsg of the 401
Authorize(authHeader) ==
    IF ~Truthy(authHeader) \/ ~StartsWith(Chars(authHeader.v), Chars("Bearer "))
    THEN [ok |-> FALSE,
          errmsg |-> Str("Invalid authorization format. Expected 'Bearer <token>'.")]
    ELSE LET token == SplitBy(Chars(authHeader.v), " ")[2]
         IN  IF token = <<>> THEN [ok |-> FALSE, errmsg |-> Str("Missing token.")]
             ELSE [ok |-> TRUE, token |-> token]

\* res.status(401).json({code: 401, errmsg})
Unauthorized(errmsg) ==
    [status |-> 401, body |-> Obj([code |-> Num(401), errmsg |-> errmsg])]

ReqProtocol == "http"
ReqHost == "bridge"

\* path.basename(p): what follows the last separator, trailing separators
\* left aside
RECURSIVE Basename(_)
Basename(p) ==
    IF p = "" THEN ""
    ELSE IF SubSeq(p, Len(p), Len(p)) = "/" THEN Basename(SubSeq(p, 1, Len(p) - 1))
    ELSE IF \A i \in 1..Len(p) : SubSeq(p, i, i) /= "/" THEN p
    ELSE LET k == CHOOSE i \in 1..Len(p) :
                    /\ SubSeq(p, i, i) = "/"
                    /\ \A j \in (i + 1)..Len(p) : SubSeq(p, j, j) /= "/"
         IN  SubSeq(p, k + 1, Len(p))

\* data.messages after the uploaded file, if any, was pushed as an image message
Messages(r) ==
    IF Truthy(r.file)
    THEN Append(r.messages,
                Obj(Json([role |-> Str("user"),
                          content_type |-> Str("image"),
                          image_url |-> Str(ReqProtocol \o "://" \o ReqHost \o "/uploads/"
                                            \o Basename(Get(r.file, "path").v)),
                          image_type |-> Get(r.file, "mimetype")])))
    ELSE r.messages

\* message.image_type || "image/jpeg"
ImageType(message) ==
    IF Truthy(Get(message, "image_type")) THEN Get(message, "image_type")
    ELSE Str("image/jpeg")

\* {url: message.image_url, type: message.image_type || "image/jpeg"}
ImageOf(message) ==
    Obj([url |-> Get(message, "image_url"), type |-> ImageType(message)])

IsImageMessage(message) ==
    Is(Get(message, "content_type"), "image") /\ Truthy(Get(message, "image_url"))

\* What the history loop pushes for one message: an entry, or undefined when
\* neither branch of the loop body takes the message
HistoryEntry(message) ==
    IF ~Truthy(Get(message, "content_type")) \/ Is(Get(message, "content_type"), "text")
    THEN Obj(Json([role |-> Get(message, "role"),
                   content |-> Get(message, "content"),
                   content_type |-> Str("text")]))
    ELSE IF IsImageMessage(message)
    THEN Obj(Json([role |-> Get(message, "role"),
                   content_type |-> Str("image"),
                   image |-> ImageOf(message)]))
    ELSE Undef

IsPushed(entry) == entry.t /= "undefined"

\* chatHistory: the entries of every message but the last, in order
ChatHistory(messages) ==
    SelectSeq([i \in 1..(Len(messages) - 1) |-> HistoryEntry(messages[i])], IsPushed)

\* hasImage after the history loop
HistoryHasImage(messages) ==
    \E i \in 1..(Len(messages) - 1) :
        /\ ~(~Truthy(Get(messages[i], "content_type"))
             \/ Is(Get(messages[i], "content_type"), "text"))
        /\ IsImageMessage(messages[i])

LastMessage(messages) ==
    IF Len(messages) > 0 THEN messages[Len(messages)] ELSE Obj(<<>>)

\* hasImage when the request body is built
HasImage(messages) ==
    HistoryHasImage(messages) \/ IsImageMessage(LastMessage(messages))

\* queryObj.image without the image_type of the message
QueryImageJpeg(messages) ==
    IF IsImageMessage(LastMessage(messages))
    THEN Obj([url |-> Get(LastMessage(messages), "image_url"), type |-> Str("image/jpeg")])
    ELSE Undef

\* queryObj.image: set only when the last message is an image message
QueryImage(messages) ==
    IF IsImageMessage(LastMessage(messages)) THEN ImageOf(LastMessage(messages))
    ELSE Undef

\* queryString: the content of a last message that is no image message
QueryString(messages) ==
    IF IsImageMessage(LastMessage(messages)) THEN Str("")
    ELSE Get(LastMessage(messages), "content")

\* process.env.BOT_CONFIG of the deployment, parsed
BotConfig == Obj([coze |-> Str("bot-coze")])

\* default_bot_id: process.env.BOT_ID || ""
DefaultBotId(r) == IF Truthy(r.bot_id_env) THEN r.bot_id_env ELSE Str("")

\* model && botConfig[model] ? botConfig[model] : default_bot_id
BotId(r) ==
    IF Truthy(r.model) /\ Truthy(Get(BotConfig, r.model.v)) THEN Get(BotConfig, r.model.v)
    ELSE DefaultBotId(r)

\* data.stream !== undefined ? data.stream : false
StreamFlag(r) == IF r.stream.t /= "undefined" THEN r.stream ELSE Bool(FALSE)

\* JSON.stringify(requestBody), as the object the upstream parses
RequestBody(r) ==
    LET messages == Messages(r) IN
    Json([user |-> IF r.user.t /= "undefined" THEN r.user ELSE Str("apiuser"),
          bot_id |-> BotId(r),
          chat_history |-> Arr(ChatHistory(messages)),
          stream |-> StreamFlag(r),
          image |-> IF HasImage(messages) THEN QueryImage(messages) ELSE Undef,
          query |-> IF HasImage(messages) THEN Undef ELSE QueryString(messages)])

CozeApiBase == "api.coze.cn"

\* coze_api_url
Endpoint(r) ==
    IF HasImage(Messages(r)) THEN "https://" \o CozeApiBase \o "/v3/vision/chat?"
    ELSE "https://" \o CozeApiBase \o "/v3/chat?"

\* The call fetch makes for an authorized request
UpstreamCall(r, token) ==
    [url |-> Endpoint(r),
     authorization |-> Chars("Bearer ") \o token,
     body |-> RequestBody(r)]

NoCall == [url |-> ""]

\* res.status(500).json({error: "Coze API (request failed)"}), the answer to an
\* upstream status outside 2xx
UpstreamFailed ==
    [status |-> 500, body |-> Obj([error |-> Str("Coze API U+8BF7U+6C42U+5931U+8D25")])]

\* res.status(500).json({error: "(internal server error)"}), the outer catch
InternalError ==
    [status |-> 500,
     body |-> Obj([error |-> Str("U+670DU+52A1U+5668U+5185U+90E8U+9519U+8BEF")])]

\* res.status(500).json({error: "Error parsing JSON response."}), the catch of
\* resp.json().then(...)
ParseFailed ==
    [status |-> 500, body |-> Obj([error |-> Str("Error parsing JSON response.")])]

NoAnswer == [status |-> 500, body |-> Obj([error |-> Str("No answer message found.")])]

\* An envelope that leaves the upstream's msg out
UnexpectedReplyFixed(msg) ==
    [status |-> 500,
     body |-> Obj([error |-> Obj([error |-> Str("Unexpected response from Coze API.")])])]

\* res.status(500).json({error: {error, message: cozeData.msg}})
UnexpectedReply(msg) ==
    [status |-> 500,
     body |-> Obj([error |-> Obj(Json([error |-> Str("Unexpected response from Coze API."),
                                       message |-> msg]))])]

\* JSON.stringify of a string that holds no character JSON escapes
Quote(s) == "\"" \o s \o "\""

Member(k, v) == IF v.t = "undefined" THEN <<>> ELSE <<Quote(k) \o ":" \o Quote(v.v)>>

RECURSIVE JoinComma(_)
JoinComma(parts) ==
    IF parts = <<>> THEN ""
    ELSE IF Len(parts) = 1 THEN parts[1]
    ELSE parts[1] \o "," \o JoinComma(Tail(parts))

\* JSON.stringify({content: "[..]", image: {url, type}})
StringifyImageResult(url, type) ==
    "{" \o Quote("content") \o ":" \o Quote(Placeholder) \o ","
        \o Quote("image") \o ":{"
        \o JoinComma(Member("url", url) \o Member("type", type)) \o "}}"

\* The predicate of find without its role test
IsAnswerAnyRole(message) ==
    Is(Get(message, "type"), "answer") \/ Is(Get(message, "content_type"), "image")

\* messages.find(role === "assistant" && (type === "answer" || content_type === "image"))
IsAnswer(message) ==
    /\ Is(Get(message, "role"), "assistant")
    /\ Is(Get(message, "type"), "answer") \/ Is(Get(message, "content_type"), "image")

Find(messages) ==
    IF \A i \in 1..Len(messages) : ~IsAnswer(messages[i]) THEN Undef
    ELSE messages[CHOOSE i \in 1..Len(messages) :
                      IsAnswer(messages[i]) /\ \A j \in 1..(i - 1) : ~IsAnswer(messages[j])]

\* choices[0].message.content of the completion document
AnswerContent(answerMessage) ==
    LET contentType == IF Truthy(Get(answerMessage, "content_type"))
                       THEN Get(answerMessage, "content_type") ELSE Str("text")
        image == Get(answerMessage, "image")
    IN  IF Is(contentType, "image") /\ Truthy(image)
        THEN Str(StringifyImageResult(
                     Get(image, "url"),
                     IF Truthy(Get(image, "type")) THEN Get(image, "type")
                     ELSE Str("image/jpeg")))
        ELSE IF Is(contentType, "text") THEN Get(answerMessage, "content")
        ELSE IF Get(answerMessage, "content").t = "string"
        THEN Str(Quote(Get(answerMessage, "content").v))
        ELSE Undef

\* res.send(JSON.stringify(formattedResponse, null, 2)), as the document the
\* client parses; id and created, which are read from the clock, are left out
Completion(model, content) ==
    [status |-> 200,
     body |-> Obj(Json(
        [object |-> Str("chat.completion"),
         model |-> model,
         choices |-> Arr(<<Obj(
            [index |-> Num(0),
             message |-> Obj(Json([role |-> Str("assistant"), content |-> content])),
             logprobs |-> Null,
             finish_reason |-> Str("stop")])>>),
         usage |-> Obj([prompt_tokens |-> Num(100),
                        completion_tokens |-> Num(10),
                        total_tokens |-> Num(110)]),
         system_fingerprint |-> Str("fp_2f57f81c11")]))]

\* The callback of resp.json().then(...), with the catch behind it
OnJson(cozeData, model) ==
    IF Get(cozeData, "code") = Num(0) /\ Is(Get(cozeData, "msg"), "success")
    THEN IF Get(cozeData, "messages").t /= "array" THEN ParseFailed
         ELSE LET answerMessage == Find(Get(cozeData, "messages").v)
              IN  IF Truthy(answerMessage)
                  THEN Completion(model, AnswerContent(answerMessage))
                  ELSE NoAnswer
    ELSE UnexpectedReply(Get(cozeData, "msg"))

-----------------------------------------------------------------------------
(* The inbound requests and the upstream's replies *)

MText == Obj([role |-> Str("user"), content |-> Str("hi")])
MTextTyped ==
    Obj([role |-> Str("assistant"), content |-> Str("yo"), content_type |-> Str("text")])
MImage ==
    Obj([role |-> Str("user"), content_type |-> Str("image"),
         image_url |-> Str("http://img/a.png"), image_type |-> Str("image/png")])
MImageNoType ==
    Obj([role |-> Str("user"), content_type |-> Str("image"),
         image_url |-> Str("http://img/b")])
MImageNoUrl == Obj([role |-> Str("user"), content_type |-> Str("image")])
MImageData ==
    Obj([role |-> Str("user"), content_type |-> Str("image"),
         image_url |-> Str("data:image/png;base64,AAAA"), image_type |-> Str("image/png")])
MAudio == Obj([role |-> Str("user"), content_type |-> Str("audio"), content |-> Str("la")])

MessageKinds == {MText, MTextTyped, MImage, MImageNoType, MImageNoUrl, MImageData, MAudio}

MessageLists == UNION {[1..n -> MessageKinds] : n \in 0..MaxMessages}

\* req.file of a multipart request
UploadedFile ==
    Obj([path |-> Str("/srv/bridge/uploads/image-1.png"), mimetype |-> Str("image/png"),
         filename |-> Str("image-1.png")])

Headers ==
    {Undef, Str(""), Str("Bearer"), Str("Bearer "), Str("Basic tok"), Str("bearer tok"),
     Str("Bearer tok"), Str("Bearer  tok"), Str("Bearer to k")}

Request(h, m, u, s, f, ms) ==
    [authorization |-> h, model |-> m, user |-> u, stream |-> s, file |-> f,
     messages |-> ms, bot_id_env |-> Str("bot-default")]

\* The same request to a deployment whose BOT_ID is not set
Unconfigured(r) == [r EXCEPT !.bot_id_env = Undef]

Requests ==
    {Request(Str("Bearer tok"), Str("coze"), Undef, s, f, ms) :
        s \in {Undef, Bool(TRUE), Bool(FALSE)}, f \in {Undef, UploadedFile},
        ms \in MessageLists}
    \cup {Request(h, Str("coze"), Undef, Undef, f, <<MText>>) :
            h \in Headers, f \in {Undef, UploadedFile}}
    \cup {Request(Str("Bearer tok"), m, u, Undef, Undef, <<MText>>) :
            m \in {Undef, Str("coze"), Str("other")}, u \in {Undef, Str("u1")}}
    \cup {Unconfigured(Request(Str("Bearer tok"), m, Undef, Undef, Undef, <<MText>>)) :
            m \in {Undef, Str("coze"), Str("other")}}

\* The request whose reply readStream bridges
StreamingRequest ==
    Request(Str("Bearer tok"), RequestModel, Undef, Bool(TRUE), Undef, <<MText>>)

Reply(code, msg, messages) == Obj(Json([code |-> code, msg |-> msg, messages |-> messages]))

AVerbose == Obj([role |-> Str("assistant"), type |-> Str("verbose"), content |-> Str("v")])
AUser == Obj([role |-> Str("user"), type |-> Str("answer"), content |-> Str("q")])
AHello ==
    Obj([role |-> Str("assistant"), type |-> Str("answer"), content |-> Str("hello"),
         content_type |-> Str("text")])
ASpaces == Obj([role |-> Str("assistant"), type |-> Str("answer"), content |-> Str(" hi ")])
ACard ==
    Obj([role |-> Str("assistant"), type |-> Str("answer"), content |-> Str("card"),
         content_type |-> Str("object_string")])
AImage ==
    Obj([role |-> Str("assistant"), type |-> Str("tool_response"), content |-> Str(""),
         content_type |-> Str("image"), image |-> Obj([url |-> Str("http://img/r.png")])])

CozeReplies ==
    {Reply(Num(0), Str("success"), Arr(<<AHello>>)),
     Reply(Num(0), Str("success"), Arr(<<AVerbose, AUser, ASpaces, AVerbose>>)),
     Reply(Num(0), Str("success"), Arr(<<ACard>>)),
     Reply(Num(0), Str("success"), Arr(<<AImage>>)),
     Reply(Num(0), Str("success"), Arr(<<AVerbose, AUser>>)),
     Reply(Num(0), Str("success"), Arr(<<>>)),
     Reply(Num(0), Str("success"), Undef),
     Reply(Num(0), Str("ok"), Arr(<<AHello>>)),
     Reply(Num(1), Str("boom"), Undef),
     Reply(Num(702), Str("denied"), Arr(<<AHello>>))}

NoReply == [ok |-> FALSE, status |-> 0, body |-> Undef]

-----------------------------------------------------------------------------
(* The upstream's streams *)

DataLine(json) == Chars("data:") \o json \o <<"\n">>

FMsgHi == DataLine(JMsgHi)
FMsgAccent == Chars("data: ") \o JMsgAccent \o Chars("\r\n")
FMsgEmpty == DataLine(JMsgEmpty)
FMsgVerbose == DataLine(JMsgVerbose)
FMsgImage == DataLine(JMsgImage)
FMsgImageBare == DataLine(JMsgImageBare)
FMsgNoBody == DataLine(JMsgNoBody)
FDone == DataLine(JDone)
FPing == DataLine(JPing)
FCreated == DataLine(JCreated)
FError == DataLine(JError)
FErrorInfo == DataLine(JErrorInfo)
FTruncated == DataLine(JTruncated)
FNoMarker == Chars("event:message\n")
FNotObject == Chars("data:[DONE]\n")
FBlank == Chars("\n")
\* Payloads whose line break has not been sent
FDoneOpen == Chars("data:") \o JDone
FMsgHiOpen == Chars("data:") \o JMsgHi

\* The frames of the termination protocol
TermFrames == {FMsgHi, FPing, FDone, FError, FErrorInfo}

\* The event kinds the for-loop body tells apart, and two it has no branch for
KindFrames == {FMsgHi, FPing, FCreated, FDone, FError}

\* The lines the for-loop body has to tell apart, well-formed or not
LineFrames ==
    {FMsgHi, FMsgEmpty, FMsgVerbose, FMsgImage, FMsgImageBare, FMsgNoBody,
     FDone, FTruncated, FNoMarker, FNotObject, FBlank}

\* Lines with and without their line break, complete and not
TailFrames ==
    {FMsgHi, FMsgAccent, FMsgNoBody, FDone, FNoMarker, FBlank, FDoneOpen, FMsgHiOpen}

RECURSIVE Concat(_)
Concat(fs) == IF fs = <<>> THEN <<>> ELSE Head(fs) \o Concat(Tail(fs))

FrameSeqs(F) == UNION {[1..n -> F] : n \in 1..MaxFrames}

Streams(F) == {Utf8(Concat(fs)) : fs \in FrameSeqs(F)}

-----------------------------------------------------------------------------
(* readStream as a state machine. The upstream delivers its stream whole, or *)
(* cut at one byte offset into two arrivals.                                 *)

\* The handler is not suspended inside its loop over the content parts
NoLocals == <<>>

\* No second connection is modelled
NoConns == [conn |-> <<>>, env |-> <<>>]

InitWith(F) ==
    /\ stream \in Streams(F)
    /\ pos = 0
    /\ cut = 0
    /\ pending = Fresh.pending
    /\ buffer = Fresh.buffer
    /\ lines = Fresh.lines
    /\ out = Fresh.out
    /\ pc = Fresh.pc
    /\ connected = TRUE
    /\ req = StreamingRequest
    /\ fetched = UpstreamCall(StreamingRequest, Chars("tok"))
    /\ reply = [ok |-> TRUE, status |-> 200, body |-> Undef]
    /\ sent = <<>>
    /\ hpc = "streaming"
    /\ effects = <<>>
    /\ conns = NoConns
    /\ locals = NoLocals

Init == InitWith(TermFrames)
InitLines == InitWith(LineFrames)
InitKinds == InitWith(KindFrames)
InitTail == InitWith(TailFrames)

\* reader.read() resolves with the next k bytes of the stream: any k for the
\* first arrival, all that is left for the second
Arrive ==
    /\ hpc = "streaming"
    /\ pc = "reading"
    /\ \E k \in 1..(Len(stream) - pos) :
        /\ pos = 0 \/ pos + k = Len(stream)
        /\ \E st \in {OnData([pending |-> pending, buffer |-> buffer, lines |-> lines,
                             out |-> out, pc |-> pc],
                            SubSeq(stream, pos + 1, pos + k))} :
               /\ pos' = pos + k
               /\ cut' = IF pos = 0 THEN k ELSE cut
               /\ pending' = st.pending
               /\ buffer' = st.buffer
               /\ lines' = st.lines
               /\ out' = st.out
               /\ pc' = st.pc
    /\ UNCHANGED <<stream, connected, hvars, conns>>

\* An end of the upstream that deals with what is left in the buffer as a line
UpstreamEndFlushing ==
    /\ hpc = "streaming"
    /\ pc = "reading"
    /\ pos = Len(stream)
    /\ out' = out \o HandleLine(buffer).calls
    /\ pc' = "returned"
    /\ UNCHANGED <<stream, pos, cut, pending, buffer, lines, connected, hvars, conns>>

\* reader.read() resolves with done: the while-loop breaks and readStream
\* returns; nothing is called on res
UpstreamEnd ==
    /\ hpc = "streaming"
    /\ pc = "reading"
    /\ pos = Len(stream)
    /\ pc' = "returned"
    /\ UNCHANGED <<stream, pos, cut, pending, buffer, lines, out, connected, hvars, conns>>

\* reader.read() rejects: the catch clause ends the response
TransportError ==
    /\ hpc = "streaming"
    /\ pc = "reading"
    /\ out' = Append(out, EndCall)
    /\ pc' = "failed"
    /\ UNCHANGED <<stream, pos, cut, pending, buffer, lines, connected, hvars, conns>>

\* The client closes its connection while readStream runs: the handler has
\* registered no listener on req or res, so nothing of readStream changes
ClientDisconnects ==
    /\ hpc = "streaming"
    /\ pc = "reading"
    /\ connected
    /\ connected' = FALSE
    /\ UNCHANGED <<stream, pos, cut, pending, buffer, lines, out, pc, hvars, conns>>

Next == Arrive \/ UpstreamEnd \/ TransportError
NextClient == Next \/ ClientDisconnects

Spec == Init /\ [][Next]_vars
SpecLines == InitLines /\ [][Next]_vars
SpecKinds == InitKinds /\ [][Next]_vars
SpecTail == InitTail /\ [][Next]_vars
SpecClient == Init /\ [][NextClient]_vars

-----------------------------------------------------------------------------
(* Two streamed responses in progress at once. Every call of the handler   *)
(* declares its own reader, decoder and buffer; the event loop runs the     *)
(* steps of the two readStream calls in any order.                          *)

Conns == {1, 2}

\* One decoder and one buffer declared outside the handler, for all calls
ScopeShared(c) == 1

\* The scope that holds `decoder` and `buffer` of connection c: the one its
\* own call of the handler has created
Scope(c) == c

PairStreams ==
    {Utf8(Concat(fs)) : fs \in {<<FMsgHi>>, <<FMsgAccent, FDone>>, <<FError>>}}

\* Where the first arrival may end: inside a multi-byte character, inside a
\* line, at the end of a line, at the end of the stream
Cuts(s) == {k \in 1..Len(s) : k = Len(s) \/ s[k] \in {"0xC3", ":", "\n"}}

InitPair ==
    /\ \E s1 \in PairStreams, s2 \in PairStreams :
        conns = [conn |-> [c \in Conns |->
                              [stream |-> IF c = 1 THEN s1 ELSE s2, pos |-> 0, cut |-> 0,
                               lines |-> Fresh.lines, out |-> Fresh.out, pc |-> Fresh.pc]],
                 env |-> [c \in Conns |-> [pending |-> <<>>, buffer |-> <<>>]]]
    /\ stream = <<>>
    /\ pos = 0
    /\ cut = 0
    /\ pending = Fresh.pending
    /\ buffer = Fresh.buffer
    /\ lines = Fresh.lines
    /\ out = Fresh.out
    /\ pc = Fresh.pc
    /\ connected = TRUE
    /\ req = StreamingRequest
    /\ fetched = UpstreamCall(StreamingRequest, Chars("tok"))
    /\ reply = [ok |-> TRUE, status |-> 200, body |-> Undef]
    /\ sent = <<>>
    /\ hpc = "streaming"
    /\ effects = <<>>
    /\ locals = NoLocals

\* reader.read() of connection c resolves with the next bytes of its stream
ArriveOn(c) ==
    /\ conns.conn[c].pc = "reading"
    /\ \E k \in 1..(Len(conns.conn[c].stream) - conns.conn[c].pos) :
        /\ \/ conns.conn[c].pos = 0 /\ k \in Cuts(conns.conn[c].stream)
           \/ conns.conn[c].pos > 0 /\ conns.conn[c].pos + k = Len(conns.conn[c].stream)
        /\ \E st \in {OnData([pending |-> conns.env[Scope(c)].pending,
                             buffer |-> conns.env[Scope(c)].buffer,
                             lines |-> conns.conn[c].lines,
                             out |-> conns.conn[c].out,
                             pc |-> conns.conn[c].pc],
                            SubSeq(conns.conn[c].stream, conns.conn[c].pos + 1,
                                   conns.conn[c].pos + k))} :
            conns' =
                [conn |-> [conns.conn EXCEPT
                              ![c] = [stream |-> @.stream,
                                      pos |-> @.pos + k,
                                      cut |-> IF @.pos = 0 THEN k ELSE @.cut,
                                      lines |-> st.lines,
                                      out |-> st.out,
                                      pc |-> st.pc]],
                 env |-> [conns.env EXCEPT
                              ![Scope(c)] = [pending |-> st.pending,
                                             buffer |-> st.buffer]]]
    /\ UNCHANGED <<svars, hvars>>

\* reader.read() of connection c resolves with done
EndOn(c) ==
    /\ conns.conn[c].pc = "reading"
    /\ conns.conn[c].pos = Len(conns.conn[c].stream)
    /\ conns' = [conns EXCEPT !.conn[c].pc = "returned"]
    /\ UNCHANGED <<svars, hvars>>

\* reader.read() of connection c rejects
ErrorOn(c) ==
    /\ conns.conn[c].pc = "reading"
    /\ conns' = [conns EXCEPT !.conn[c].out = Append(@, EndCall),
                              !.conn[c].pc = "failed"]
    /\ UNCHANGED <<svars, hvars>>

NextPair == \E c \in Conns : ArriveOn(c) \/ EndOn(c) \/ ErrorOn(c)

SpecPair == InitPair /\ [][NextPair]_vars

-----------------------------------------------------------------------------
(* The request handler as a state machine, up to the point where readStream *)
(* takes over a streamed reply                                              *)

InitHandler ==
    /\ req \in Requests
    /\ fetched = NoCall
    /\ reply = NoReply
    /\ sent = <<>>
    /\ hpc = "start"
    /\ effects = <<>>
    /\ conns = NoConns
    /\ locals = NoLocals
    /\ stream = <<>>
    /\ pos = 0
    /\ cut = 0
    /\ pending = Fresh.pending
    /\ buffer = Fresh.buffer
    /\ lines = Fresh.lines
    /\ out = <<>>
    /\ pc = Fresh.pc
    /\ connected = TRUE

\* fs.unlink(path, callback)
Unlink(path) == [call |-> "unlink", path |-> path]

\* The temporary file of the request is deleted as soon as its URL is pushed
Unlinked(r) == IF Truthy(r.file) THEN <<Unlink(Get(r.file, "path"))>> ELSE <<>>

\* The handler from its entry to `await fetch(...)`: a 401, or the upstream call
Handle ==
    /\ hpc = "start"
    /\ \E a \in {Authorize(req.authorization)} :
        IF a.ok
        THEN /\ fetched' = UpstreamCall(req, a.token)
             /\ sent' = sent
             /\ hpc' = "fetching"
             /\ effects' = effects \o Unlinked(req)
        ELSE /\ fetched' = fetched
             /\ sent' = Append(sent, Unauthorized(a.errmsg))
             /\ hpc' = "done"
             /\ effects' = effects
    /\ UNCHANGED <<req, reply, svars, locals, conns>>

\* The handler waits at `await fetch(...)`, within the upper bound or past it
Awaiting == hpc \in {"fetching", "overdue"}

\* The upper bound of 30 seconds passes while fetch is pending: the handler
\* has set no timer and passes no abort signal, so nothing is called
UpperBoundPasses ==
    /\ hpc = "fetching"
    /\ hpc' = "overdue"
    /\ UNCHANGED <<req, fetched, reply, sent, effects, svars, locals, conns>>

\* fetch rejects (the upstream cannot be reached): the outer catch answers
FetchRejects ==
    /\ Awaiting
    /\ sent' = Append(sent, InternalError)
    /\ hpc' = "done"
    /\ UNCHANGED <<req, fetched, reply, effects, svars, locals, conns>>

\* fetch resolves with a status outside 2xx: the handler waits at
\* `await resp.text()` with nothing sent
FetchNotOk ==
    /\ Awaiting
    /\ \E status \in {404, 502} :
        reply' = [ok |-> FALSE, status |-> status, body |-> Undef]
    /\ hpc' = "reading_text"
    /\ UNCHANGED <<req, fetched, sent, effects, svars, locals, conns>>

\* The branch for a status outside 2xx without its return
TextResolvesFallsThrough ==
    /\ hpc = "reading_text"
    /\ reply' = [reply EXCEPT !.body = Str("upstream says no")]
    /\ sent' = Append(sent, UpstreamFailed)
    /\ hpc' = "parsing"
    /\ UNCHANGED <<req, fetched, effects, svars, locals, conns>>

\* resp.text() resolves with the error body: it is logged, and the handler
\* answers 500 and returns
TextResolves ==
    /\ hpc = "reading_text"
    /\ reply' = [reply EXCEPT !.body = Str("upstream says no")]
    /\ sent' = Append(sent, UpstreamFailed)
    /\ hpc' = "done"
    /\ UNCHANGED <<req, fetched, effects, svars, locals, conns>>

\* resp.text() rejects (the body cannot be read): the outer catch answers
TextRejects ==
    /\ hpc = "reading_text"
    /\ sent' = Append(sent, InternalError)
    /\ hpc' = "done"
    /\ UNCHANGED <<req, fetched, reply, effects, svars, locals, conns>>

\* fetch resolves with a 2xx status: for a streamed reply the header is set
\* on res and readStream called, for the other resp.json()
FetchOk ==
    /\ Awaiting
    /\ reply' = [ok |-> TRUE, status |-> 200, body |-> Undef]
    /\ IF Truthy(StreamFlag(req))
       THEN /\ hpc' = "streaming"
            /\ out' = Append(out, SetHeaderCall("Content-Type", "text/event-stream"))
       ELSE /\ hpc' = "parsing"
            /\ UNCHANGED out
    /\ UNCHANGED <<stream, pos, cut, pending, buffer, lines, pc, connected,
                   req, fetched, sent, effects, locals, conns>>

\* resp.json() resolves with the parsed body: the completion is sent after
\* res.set("Content-Type", "application/json"), an error by res.status(500).json
JsonResolves ==
    /\ hpc = "parsing"
    /\ \E cozeData \in CozeReplies :
        \E response \in {OnJson(cozeData, req.model)} :
            /\ reply' = [reply EXCEPT !.body = cozeData]
            /\ sent' = Append(sent, response)
            /\ out' = IF response.status = 200
                      THEN Append(out, SetCall("Content-Type", "application/json"))
                      ELSE out
    /\ hpc' = "done"
    /\ UNCHANGED <<stream, pos, cut, pending, buffer, lines, pc, connected,
                   req, fetched, effects, locals, conns>>

\* resp.json() rejects: the body is no JSON
JsonRejects ==
    /\ hpc = "parsing"
    /\ reply' = [reply EXCEPT !.body = Str("<html>")]
    /\ sent' = Append(sent, ParseFailed)
    /\ hpc' = "done"
    /\ UNCHANGED <<req, fetched, effects, svars, locals, conns>>

\* res.status(400).json({error: "(image could not be parsed)"})
UploadRejected ==
    [status |-> 400,
     body |-> Obj([error |-> Str("U+56FEU+7247U+89E3U+6790U+5931U+8D25")])]

\* upload.single("image") of a multipart request calls back with an error:
\* the middleware answers and does not call next(), the handler never runs
UploadFails ==
    /\ hpc = "start"
    /\ ~Truthy(req.file)
    /\ sent' = Append(sent, UploadRejected)
    /\ hpc' = "done"
    /\ UNCHANGED <<req, fetched, reply, effects, svars, locals, conns>>

\* The route: its upload middleware, then the handler
NextHandler ==
    \/ Handle \/ UpperBoundPasses \/ FetchRejects \/ FetchNotOk \/ TextResolves
    \/ TextRejects \/ FetchOk \/ JsonResolves \/ JsonRejects \/ UploadFails

SpecHandler == InitHandler /\ [][NextHandler]_vars

-----------------------------------------------------------------------------
(* The image endpoint of src/unnamed/part_002: one uploaded image, one     *)
(* upstream call under a 30 second abort timer                              *)

\* The bearer check of the image endpoint: no test for an empty token
ImageAuthorize(authHeader) ==
    IF ~Truthy(authHeader) \/ ~StartsWith(Chars(authHeader.v), Chars("Bearer "))
    THEN [ok |-> FALSE]
    ELSE [ok |-> TRUE, token |-> SplitBy(Chars(authHeader.v), " ")[2]]

\* `${req.protocol}://${req.get('host')}/uploads/${req.file.filename}`
ImageUrl(r) ==
    Str(ReqProtocol \o "://" \o ReqHost \o "/uploads/" \o Get(r.file, "filename").v)

\* requestBody of the image endpoint; temperature 0.7 is written 7e-1
ImageRequestBody(r) ==
    [model |-> Str("coze-8b"),
     messages |-> Arr(<<Obj(
        [role |-> Str("user"),
         content |-> Arr(<<Obj([type |-> Str("text"),
                                text |-> Str("U+8BF7U+5206U+6790U+8FD9U+5F20U+56FEU+7247")]),
                           Obj([type |-> Str("image_url"),
                                image_url |-> Obj([url |-> ImageUrl(r)])])>>)])>>),
     temperature |-> [t |-> "number", v |-> 7, e |-> -1],
     stream |-> Bool(FALSE)]

ImageCall(r, token) ==
    [url |-> "https://api.coze.cn/v3/chat",
     authorization |-> Chars("Bearer ") \o token,
     body |-> ImageRequestBody(r)]

ImageUnauthorized ==
    [status |-> 401,
     body |-> Obj([error |-> Str("U+65E0U+6548U+7684U+8BA4U+8BC1U+683CU+5F0F")])]

ImageMissing ==
    [status |-> 400,
     body |-> Obj([error |-> Str("U+672AU+4E0AU+4F20U+56FEU+7247U+6587U+4EF6")])]

ImageTimedOut ==
    [status |-> 504, body |-> Obj([error |-> Str("Coze APIU+8BF7U+6C42U+8D85U+65F6")])]

\* res.status(500).json({error, details: error.message})
ImageCallFailed(message) ==
    [status |-> 500,
     body |-> Obj([error |-> Str("U+8C03U+7528Coze APIU+5931U+8D25"),
                   details |-> Str(message)])]

\* res.status(cozeResponse.status).json({error, details: errorBody})
ImageUpstreamFailed(status, errorBody) ==
    [status |-> status,
     body |-> Obj([error |-> Str("Coze APIU+8C03U+7528U+5931U+8D25"), details |-> errorBody])]

\* res.json({id, object, model, choices}); id is read from the clock when
\* the upstream gives none and is left out
ImageCompletion(responseData) ==
    [status |-> 200,
     body |-> Obj(Json(
        [object |-> Str("chat.completion"),
         model |-> Get(responseData, "model"),
         choices |-> IF Truthy(Get(responseData, "choices"))
                     THEN Get(responseData, "choices")
                     ELSE Arr(<<Obj([message |-> Obj(
                              [role |-> Str("assistant"),
                               content |-> IF Truthy(Get(responseData, "content"))
                                           THEN Get(responseData, "content")
                                           ELSE Str("No response")])])>>)]))]

\* setTimeout(() => fs.unlink(req.file.path), 30000)
UnlinkLater(path) == [call |-> "setTimeout", ms |-> 30000, path |-> path]

ImageReplies ==
    {Obj([content |-> Str("a cat")]),
     Obj([model |-> Str("coze-8b"),
          choices |-> Arr(<<Obj([message |-> Obj([role |-> Str("assistant"),
                                                  content |-> Str("a dog")])])>>)]),
     Obj([code |-> Num(4000)])}

\* The handler from its entry to `await fetch(...)`
ImageHandle ==
    /\ hpc = "start"
    /\ \E a \in {ImageAuthorize(req.authorization)} :
        IF ~a.ok
        THEN /\ sent' = Append(sent, ImageUnauthorized)
             /\ fetched' = fetched
             /\ hpc' = "done"
        ELSE IF ~Truthy(req.file)
        THEN /\ sent' = Append(sent, ImageMissing)
             /\ fetched' = fetched
             /\ hpc' = "done"
        ELSE /\ sent' = sent
             /\ fetched' = ImageCall(req, a.token)
             /\ hpc' = "fetching"
    /\ UNCHANGED <<req, reply, effects, svars, locals, conns>>

\* The timer fires after 30 seconds: controller.abort() makes the pending
\* fetch, or the pending read of the body, reject with an AbortError
ImageFetchAborts ==
    /\ hpc \in {"fetching", "reading_text", "parsing"}
    /\ sent' = Append(sent, ImageTimedOut)
    /\ hpc' = "done"
    /\ UNCHANGED <<req, fetched, reply, effects, svars, locals, conns>>

\* fetch rejects for another reason
ImageFetchRejects ==
    /\ hpc = "fetching"
    /\ sent' = Append(sent, ImageCallFailed("connect ECONNREFUSED"))
    /\ hpc' = "done"
    /\ UNCHANGED <<req, fetched, reply, effects, svars, locals, conns>>

\* fetch resolves with a status outside 2xx: the handler waits at
\* `await cozeResponse.text()` with nothing sent and the timer still due
ImageFetchNotOk ==
    /\ hpc = "fetching"
    /\ \E status \in {404, 502} :
        reply' = [ok |-> FALSE, status |-> status, body |-> Undef]
    /\ hpc' = "reading_text"
    /\ UNCHANGED <<req, fetched, sent, effects, svars, locals, conns>>

\* cozeResponse.text() resolves: the upstream's status and body are passed on
ImageTextResolves ==
    /\ hpc = "reading_text"
    /\ reply' = [reply EXCEPT !.body = Str("upstream says no")]
    /\ sent' = Append(sent, ImageUpstreamFailed(reply.status, Str("upstream says no")))
    /\ hpc' = "done"
    /\ UNCHANGED <<req, fetched, effects, svars, locals, conns>>

\* cozeResponse.text() rejects: the inner catch answers
ImageTextRejects ==
    /\ hpc = "reading_text"
    /\ sent' = Append(sent, ImageCallFailed("body read failed"))
    /\ hpc' = "done"
    /\ UNCHANGED <<req, fetched, reply, effects, svars, locals, conns>>

\* fetch resolves with a 2xx status: `await cozeResponse.json()`
ImageFetchOk ==
    /\ hpc = "fetching"
    /\ reply' = [ok |-> TRUE, status |-> 200, body |-> Undef]
    /\ hpc' = "parsing"
    /\ UNCHANGED <<req, fetched, sent, effects, svars, locals, conns>>

\* The body parses: the deletion of the file is scheduled, the answer sent
ImageJsonResolves ==
    /\ hpc = "parsing"
    /\ \E responseData \in ImageReplies :
        /\ reply' = [reply EXCEPT !.body = responseData]
        /\ sent' = Append(sent, ImageCompletion(responseData))
    /\ effects' = Append(effects, UnlinkLater(Get(req.file, "path")))
    /\ hpc' = "done"
    /\ UNCHANGED <<req, fetched, svars, locals, conns>>

\* The body is no JSON: the inner catch answers
ImageJsonRejects ==
    /\ hpc = "parsing"
    /\ reply' = [reply EXCEPT !.body = Str("<html>")]
    /\ sent' = Append(sent, ImageCallFailed("invalid json response body"))
    /\ hpc' = "done"
    /\ UNCHANGED <<req, fetched, effects, svars, locals, conns>>

\* The catch of the stream route: one data line with the error, then the end
ImageStreamError(message) ==
    <<WriteCall(Obj([error |-> Str("U+670DU+52A1U+5668U+5185U+90E8U+9519U+8BEF"),
                     details |-> Str(message)])),
      EndCall>>

\* The request goes to /v3/chat/stream of the same server: no bearer check and
\* no look at the file; the headers are set and flushed, then the read of
\* requestBody, which the route never declares, throws a ReferenceError and
\* the catch writes it and ends the response. No upstream call is made and
\* the file stored for the request is not deleted
ImageStreamRoute ==
    /\ hpc = "start"
    /\ out' = out \o <<SetHeaderCall("Content-Type", "text/event-stream"),
                        SetHeaderCall("Cache-Control", "no-cache"),
                        SetHeaderCall("Connection", "keep-alive"),
                        FlushHeadersCall>>
                   \o ImageStreamError("requestBody is not defined")
    /\ hpc' = "done"
    /\ UNCHANGED <<stream, pos, cut, pending, buffer, lines, pc, connected,
                   req, fetched, reply, sent, effects, locals, conns>>

NextImage ==
    \/ ImageHandle \/ ImageFetchAborts \/ ImageFetchRejects \/ ImageFetchNotOk
    \/ ImageTextResolves \/ ImageTextRejects
    \/ ImageFetchOk \/ ImageJsonResolves \/ ImageJsonRejects \/ ImageStreamRoute

SpecImage == InitHandler /\ [][NextImage]_vars

-----------------------------------------------------------------------------
(* The handler of src/unnamed/part_000 that takes a last message made of   *)
(* typed content parts and uploads its images: one step per await          *)

MaxParts == 3   \* content parts in one last message

Lower ==
    {"a", "b", "c", "d", "e", "f", "g", "h", "i", "j", "k", "l", "m", "n", "o", "p", "q",
     "r", "s", "t", "u", "v", "w", "x", "y", "z"}

\* Where the mime type ends in a url that matches
\* /^data:(image\/[a-z]+);base64,(.+)$/; the empty set when it does not match
MimeEnds(url) ==
    LET cs == Chars(url)
        first == Len("data:image/") + 1
    IN  IF ~StartsWith(cs, Chars("data:image/")) THEN {}
        ELSE {k \in first..Len(cs) :
                /\ \A j \in first..k : cs[j] \in Lower
                /\ k + Len(";base64,") < Len(cs)
                /\ SubSeq(cs, k + 1, k + Len(";base64,")) = Chars(";base64,")}

\* The fetch of uploadImageToCoze: the form holds the bytes the base64 text
\* stands for, named by that text
UploadCall(url, token) ==
    LET k == CHOOSE e \in MimeEnds(url) : TRUE
        mimeType == SubSeq(url, Len("data:") + 1, k)
    IN  [call |-> "upload",
         url |-> "https://" \o CozeApiBase \o "/v1/files/upload",
         authorization |-> Chars("Bearer ") \o token,
         filename |-> "upload." \o SubSeq(url, Len("data:image/") + 1, k),
         contentType |-> mimeType,
         bytesOf |-> SubSeq(url, k + Len(";base64,") + 1, Len(url))]

\* The file_id the upstream gives to the n-th file it accepts
FileId(n) == Str("file-" \o Decimal(n))

\* `for (const part of lastMessage.content)` from part i on, as far as it runs
\* without waiting: to the call of uploadImageToCoze that reaches its fetch
\* ("upload"), to the one that throws on its url ("thrown"), or to the end of
\* the loop ("end"). acc holds queryString and file_ids
RECURSIVE ForParts(_, _, _)
ForParts(parts, i, acc) ==
    IF i > Len(parts) THEN [at |-> "end", i |-> i, acc |-> acc, message |-> Undef]
    ELSE IF Is(Get(parts[i], "type"), "text")
    THEN ForParts(parts, i + 1, [acc EXCEPT !.queryString = Get(parts[i], "text")])
    ELSE IF /\ Is(Get(parts[i], "type"), "image_url")
            /\ Truthy(Get(parts[i], "image_url"))
            /\ Truthy(Get(Get(parts[i], "image_url"), "url"))
    THEN IF MimeEnds(Get(Get(parts[i], "image_url"), "url").v) = {}
         THEN [at |-> "thrown", i |-> i, acc |-> acc,
               message |-> Str("U+65E0U+6548U+7684 image_url U+683CU+5F0FU+3002"
                               \o "U+9700U+8981U+4E00U+4E2A data URLU+3002")]
         ELSE [at |-> "upload", i |-> i, acc |-> acc, message |-> Undef]
    ELSE ForParts(parts, i + 1, acc)

\* The handler from `let queryString = ""` on, as far as it runs without
\* waiting
LastOf(lastMessage) ==
    LET acc == [queryString |-> Str(""), file_ids |-> <<>>]
    IN  IF Get(lastMessage, "content").t = "string"
        THEN [at |-> "end", i |-> 0,
              acc |-> [acc EXCEPT !.queryString = Get(lastMessage, "content")],
              message |-> Undef]
        ELSE IF Get(lastMessage, "content").t = "array"
        THEN ForParts(Get(lastMessage, "content").v, 1, acc)
        ELSE [at |-> "end", i |-> 0, acc |-> acc, message |-> Undef]

IsStringContent(entry) == Get(entry, "content").t = "string"

\* chatHistory: the messages before the last whose content is a string
PartsHistory(messages) ==
    [i \in 1..Len(SelectSeq(SubSeq(messages, 1, Len(messages) - 1), IsStringContent)) |->
        Obj(Json([role |-> Get(SelectSeq(SubSeq(messages, 1, Len(messages) - 1),
                                         IsStringContent)[i], "role"),
                  content |-> Get(SelectSeq(SubSeq(messages, 1, Len(messages) - 1),
                                            IsStringContent)[i], "content"),
                  content_type |-> Str("text")]))]

Attachment(id) == Obj([type |-> Str("image"), file_id |-> id])

\* JSON.stringify(requestBody), as the object the upstream parses
PartsBody(r, last) ==
    Json([query |-> last.queryString,
          stream |-> StreamFlag(r),
          conversation_id |-> Str(""),
          user |-> IF r.user.t /= "undefined" THEN r.user ELSE Str("apiuser"),
          bot_id |-> BotId(r),
          chat_history |-> Arr(PartsHistory(r.messages)),
          attachments |-> IF Len(last.file_ids) > 0
                          THEN Arr([i \in 1..Len(last.file_ids) |->
                                       Attachment(last.file_ids[i])])
                          ELSE Undef])

PartsCall(r, token, last) ==
    [url |-> "https://" \o CozeApiBase \o "/v3/chat",
     authorization |-> Chars("Bearer ") \o token,
     body |-> PartsBody(r, last)]

\* res.status(500).json({code: 500, errmsg: "(upload failed): " + message})
UploadFailed(message) ==
    [status |-> 500,
     body |-> Obj([code |-> Num(500),
                   errmsg |-> Str("U+4E0AU+4F20U+56FEU+7247U+5230 Coze U+5931U+8D25: "
                                  \o message.v)])]

\* The outer catch: res.status(500).json({code: 500, errmsg: "(internal
\* server error): " + error.message})
PartsInternalError(message) ==
    [status |-> 500,
     body |-> Obj([code |-> Num(500),
                   errmsg |-> Str("U+670DU+52A1U+5668U+5185U+90E8U+9519U+8BEF: "
                                  \o message)])]

\* The message of the TypeError that `lastMessage.content` raises when the
\* message list is empty and lastMessage undefined
NoLastMessage == "Cannot read properties of undefined (reading 'content')"

PText(text) == Obj([type |-> Str("text"), text |-> Str(text)])
PImage(url) == Obj([type |-> Str("image_url"), image_url |-> Obj([url |-> Str(url)])])

PartKinds ==
    {PText("one"), PText("two"), PImage("data:image/png;base64,AAAA"),
     PImage("data:image/jpeg;base64,BBBB"), PImage("http://img/a.png")}

PartLists == UNION {[1..n -> PartKinds] : n \in 0..MaxParts}

\* A message whose content is a list of typed parts
MParts(parts) == Obj([role |-> Str("user"), content |-> Arr(parts)])

PartsRequests ==
    {Request(Str("Bearer tok"), Str("coze"), Undef, Undef, Undef,
             history \o <<MParts(parts)>>) :
        history \in {<<>>, <<MText>>, <<MParts(<<PImage("data:image/png;base64,AAAA")>>),
                                       MText>>},
        parts \in PartLists}
    \cup {Request(h, Str("coze"), Undef, s, Undef, ms) :
            h \in {Undef, Str("Bearer "), Str("Bearer tok")},
            s \in {Undef, Bool(TRUE)}, ms \in {<<>>, <<MText>>, <<MImage, MText>>}}

\* What the upstream answers to an upload: response.ok and the parsed body
UploadResults(n) ==
    {[ok |-> TRUE, result |-> Obj([code |-> Num(0), data |-> Obj([id |-> FileId(n)])])],
     [ok |-> TRUE, result |-> Obj([code |-> Num(4001), msg |-> Str("quota")])],
     [ok |-> FALSE, result |-> Obj([code |-> Num(0), data |-> Obj([id |-> FileId(n)])])]}

\* The end of uploadImageToCoze: the file id, or the message of its Error
UploadOutcome(ok, result) ==
    IF /\ ok
       /\ Get(result, "code") = Num(0)
       /\ Truthy(Get(result, "data"))
       /\ Truthy(Get(Get(result, "data"), "id"))
    THEN [id |-> Get(Get(result, "data"), "id"), thrown |-> Undef]
    ELSE [id |-> Undef,
          thrown |-> IF Truthy(Get(result, "msg")) THEN Get(result, "msg")
                     ELSE Str("U+4E0AU+4F20U+6587U+4EF6U+5230 Coze U+5931U+8D25U+3002")]

\* The frames the callback of responseStream.on("data") tells apart
PartsFrames == {FMsgHi, FMsgAccent, FMsgNoBody, FPing, FDone, FError}

InitParts ==
    /\ req \in PartsRequests
    /\ fetched = NoCall
    /\ reply = NoReply
    /\ sent = <<>>
    /\ hpc = "start"
    /\ effects = <<>>
    /\ conns = NoConns
    /\ locals = NoLocals
    /\ stream = <<>>
    /\ pos = 0
    /\ cut = 0
    /\ pending = Fresh.pending
    /\ buffer = Fresh.buffer
    /\ lines = Fresh.lines
    /\ out = <<>>
    /\ pc = Fresh.pc
    /\ connected = TRUE

\* The bearer token check of this handler
PartsAuthorize(authHeader) ==
    IF ~Truthy(authHeader) \/ ~StartsWith(Chars(authHeader.v), Chars("Bearer "))
    THEN [ok |-> FALSE,
          errmsg |-> Str("U+65E0U+6548U+7684U+8BA4U+8BC1U+683CU+5F0FU+FF0C"
                         \o "U+8BF7U+4F7FU+7528 'Bearer <token>'.")]
    ELSE LET token == SplitBy(Chars(authHeader.v), " ")[2]
         IN  IF token = <<>> THEN [ok |-> FALSE, errmsg |-> Str("U+7F3AU+5C11 token.")]
             ELSE [ok |-> TRUE, token |-> token]

\* The url of the image part the loop stands at
PartUrl(r, i) ==
    Get(Get(Get(r.messages[Len(r.messages)], "content").v[i], "image_url"), "url").v

\* The handler runs on from where `run` left the loop: into the fetch of the
\* next upload, where it waits; into the catch of a failed upload, which
\* answers 500; or, the loop over, into the chat call, where it waits
PartsGoOn(run, token) ==
    IF run.at = "upload"
    THEN /\ effects' = Append(effects, UploadCall(PartUrl(req, run.i), token))
         /\ locals' = [i |-> run.i, acc |-> run.acc, token |-> token, ok |-> FALSE]
         /\ hpc' = "uploading"
         /\ UNCHANGED <<fetched, sent>>
    ELSE IF run.at = "thrown"
    THEN /\ sent' = Append(sent, UploadFailed(run.message))
         /\ locals' = NoLocals
         /\ hpc' = "done"
         /\ UNCHANGED <<fetched, effects>>
    ELSE /\ fetched' = PartsCall(req, token, run.acc)
         /\ locals' = NoLocals
         /\ hpc' = "fetching"
         /\ UNCHANGED <<sent, effects>>

\* The handler from its entry to its first wait or its first answer
PartsHandle ==
    /\ hpc = "start"
    /\ \E a \in {PartsAuthorize(req.authorization)} :
        IF ~a.ok
        THEN /\ sent' = Append(sent, Unauthorized(a.errmsg))
             /\ UNCHANGED <<fetched, effects, locals>>
             /\ hpc' = "done"
        ELSE IF req.messages = <<>>
        THEN /\ sent' = Append(sent, PartsInternalError(NoLastMessage))
             /\ UNCHANGED <<fetched, effects, locals>>
             /\ hpc' = "done"
        ELSE \E run \in {LastOf(req.messages[Len(req.messages)])} :
                PartsGoOn(run, a.token)
    /\ UNCHANGED <<req, reply, svars, conns>>

\* The fetch of an upload rejects: uploadImageToCoze throws, the catch around
\* it answers
UploadFetchRejects ==
    /\ hpc = "uploading"
    /\ sent' = Append(sent, UploadFailed(Str("connect ECONNREFUSED")))
    /\ locals' = NoLocals
    /\ hpc' = "done"
    /\ UNCHANGED <<req, fetched, reply, effects, svars, conns>>

\* The fetch of an upload resolves: `await response.json()`
UploadFetchResolves ==
    /\ hpc = "uploading"
    /\ \E ok \in BOOLEAN : locals' = [locals EXCEPT !.ok = ok]
    /\ hpc' = "upload_parsing"
    /\ UNCHANGED <<req, fetched, reply, sent, effects, svars, conns>>

\* The body of the upload's answer is no JSON
UploadJsonRejects ==
    /\ hpc = "upload_parsing"
    /\ sent' = Append(sent, UploadFailed(Str("invalid json response body")))
    /\ locals' = NoLocals
    /\ hpc' = "done"
    /\ UNCHANGED <<req, fetched, reply, effects, svars, conns>>

\* The body of the upload's answer parses: the file id is pushed and the loop
\* goes on with the next part, or uploadImageToCoze throws
UploadJsonResolves ==
    /\ hpc = "upload_parsing"
    /\ \E u \in UploadResults(Len(locals.acc.file_ids) + 1) :
        /\ u.ok = locals.ok
        /\ \E o \in {UploadOutcome(u.ok, u.result)} :
            IF o.thrown.t /= "undefined"
            THEN PartsGoOn([at |-> "thrown", i |-> locals.i, acc |-> locals.acc,
                            message |-> o.thrown], locals.token)
            ELSE PartsGoOn(
                    ForParts(Get(req.messages[Len(req.messages)], "content").v,
                             locals.i + 1,
                             [locals.acc EXCEPT !.file_ids = Append(@, o.id)]),
                    locals.token)
    /\ UNCHANGED <<req, reply, svars, conns>>

\* The chat call rejects: the outer catch answers
PartsFetchRejects ==
    /\ hpc = "fetching"
    /\ sent' = Append(sent, PartsInternalError("connect ECONNREFUSED"))
    /\ hpc' = "done"
    /\ UNCHANGED <<req, fetched, reply, effects, svars, locals, conns>>

\* String.prototype.trim() of a string value
RECURSIVE TrimStr(_)
TrimStr(s) ==
    IF s = "" THEN ""
    ELSE IF IsSpace(SubSeq(s, 1, 1)) THEN TrimStr(SubSeq(s, 2, Len(s)))
    ELSE IF IsSpace(SubSeq(s, Len(s), Len(s))) THEN TrimStr(SubSeq(s, 1, Len(s) - 1))
    ELSE s

\* messages.find(role === "assistant" && type === "answer")
PartsIsAnswer(message) ==
    Is(Get(message, "role"), "assistant") /\ Is(Get(message, "type"), "answer")

PartsFind(messages) ==
    IF \A i \in 1..Len(messages) : ~PartsIsAnswer(messages[i]) THEN Undef
    ELSE messages[CHOOSE i \in 1..Len(messages) :
                      /\ PartsIsAnswer(messages[i])
                      /\ \A j \in 1..(i - 1) : ~PartsIsAnswer(messages[j])]

PartsNoAnswer ==
    [status |-> 500,
     body |-> Obj([error |-> Str("U+672AU+627EU+5230 answer "
                                 \o "U+7C7BU+578BU+7684U+6D88U+606FU+3002")])]

PartsUnexpectedText == "U+6765U+81EA Coze API U+7684U+610FU+5916U+54CDU+5E94U+3002"

PartsUnexpectedReply(msg) ==
    [status |-> 500,
     body |-> Obj([error |-> Obj(Json([error |-> Str(PartsUnexpectedText),
                                       message |-> msg]))])]

PartsParseFailed ==
    [status |-> 500,
     body |-> Obj([error |-> Str("U+89E3U+6790 JSON "
                                 \o "U+54CDU+5E94U+65F6U+51FAU+9519U+3002")])]

\* The callback of resp.json().then(...), with the catch behind it: the
\* answer's content is trimmed; messages that are no list and a content that
\* is no string raise a TypeError, which the catch answers
PartsOnJson(cozeData, model) ==
    IF Get(cozeData, "code") = Num(0) /\ Is(Get(cozeData, "msg"), "success")
    THEN IF Get(cozeData, "messages").t /= "array" THEN PartsParseFailed
         ELSE LET answerMessage == PartsFind(Get(cozeData, "messages").v)
              IN  IF ~Truthy(answerMessage) THEN PartsNoAnswer
                  ELSE IF Get(answerMessage, "content").t /= "string"
                  THEN PartsParseFailed
                  ELSE Completion(model, Str(TrimStr(Get(answerMessage, "content").v)))
    ELSE PartsUnexpectedReply(Get(cozeData, "msg"))

\* The chat call resolves, whatever its status: for a streamed request the
\* header is set and the listeners are put on resp.body, for another the
\* handler calls resp.json(); it returns in both
PartsFetchResolves ==
    /\ hpc = "fetching"
    /\ \E status \in {200, 502} :
        reply' = [ok |-> status = 200, status |-> status, body |-> Undef]
    /\ IF Truthy(StreamFlag(req))
       THEN /\ hpc' = "streaming"
            /\ out' = Append(out, SetHeaderCall("Content-Type", "text/event-stream"))
            /\ stream' \in Streams(PartsFrames)
       ELSE /\ hpc' = "parsing"
            /\ UNCHANGED <<out, stream>>
    /\ UNCHANGED <<pos, cut, pending, buffer, lines, pc, connected,
                   req, fetched, sent, effects, locals, conns>>

\* resp.json() resolves with the parsed body: the completion is sent after
\* res.set("Content-Type", "application/json"), an error by res.status(500).json
PartsJsonResolves ==
    /\ hpc = "parsing"
    /\ \E cozeData \in CozeReplies :
        \E response \in {PartsOnJson(cozeData, req.model)} :
            /\ reply' = [reply EXCEPT !.body = cozeData]
            /\ sent' = Append(sent, response)
            /\ out' = IF response.status = 200
                      THEN Append(out, SetCall("Content-Type", "application/json"))
                      ELSE out
    /\ hpc' = "done"
    /\ UNCHANGED <<stream, pos, cut, pending, buffer, lines, pc, connected,
                   req, fetched, effects, locals, conns>>

\* resp.json() rejects
PartsJsonRejects ==
    /\ hpc = "parsing"
    /\ reply' = [reply EXCEPT !.body = Str("<html>")]
    /\ sent' = Append(sent, PartsParseFailed)
    /\ hpc' = "done"
    /\ UNCHANGED <<req, fetched, effects, svars, locals, conns>>

\* chunk.toString(): every arrival is decoded on its own, a lead byte at its
\* end is U+FFFD
ChunkToString(bytes) ==
    SelectSeq([i \in 1..Len(bytes) |->
                  IF bytes[i] = Lead /\ i = Len(bytes) THEN Replacement
                  ELSE DecodeAt(<<>>, bytes, i)], IsChar)

\* event === "message" in the data callback: answers only, no image branch
PartsOnMessage(chunkObj) ==
    LET message == Get(chunkObj, "message") IN
    IF message.t = "undefined" THEN [calls |-> <<>>, threw |-> TRUE]
    ELSE IF ~(Is(Get(message, "role"), "assistant") /\ Is(Get(message, "type"), "answer"))
    THEN [calls |-> <<>>, threw |-> FALSE]
    ELSE IF Is(Get(message, "content"), "") THEN [calls |-> <<>>, threw |-> FALSE]
    ELSE [calls |-> <<WriteCall(Chunk([content |-> Get(message, "content")], Null))>>,
          threw |-> FALSE]

\* event === "error" in the data callback
PartsOnError(chunkObj) ==
    LET errorMsg ==
            IF Truthy(Get(chunkObj, "error_information"))
            THEN Get(Get(chunkObj, "error_information"), "err_msg")
            ELSE Str(ToStr(Get(chunkObj, "code")) \o " "
                     \o ToStr(Get(chunkObj, "message")))
    IN  [calls |-> <<WriteCall(Obj([error |-> Json([error |-> Str(PartsUnexpectedText),
                                                    message |-> errorMsg])])),
                     SentinelCall, EndCall>>,
         threw |-> FALSE]

\* The body of the callback's for-loop for one complete line
PartsHandleLine(raw) ==
    LET chunkObj == ParseLine(raw)
        event == Get(chunkObj, "event")
    IN  CASE chunkObj.t = "undefined" -> [calls |-> <<>>, threw |-> FALSE]
          [] Is(event, "message") -> PartsOnMessage(chunkObj)
          [] Is(event, "done") -> OnDone
          [] Is(event, "ping") -> [calls |-> <<>>, threw |-> FALSE]
          [] Is(event, "error") -> PartsOnError(chunkObj)
          [] OTHER -> [calls |-> <<>>, threw |-> FALSE]

RECURSIVE PartsForLoop(_, _)
PartsForLoop(ls, i) ==
    IF i > Len(ls) - 1 THEN [calls |-> <<>>, threw |-> FALSE, handled |-> <<>>]
    ELSE LET r == PartsHandleLine(ls[i]) IN
         IF r.threw THEN [calls |-> r.calls, threw |-> TRUE, handled |-> <<ls[i]>>]
         ELSE LET rest == PartsForLoop(ls, i + 1)
              IN  [calls |-> r.calls \o rest.calls, threw |-> rest.threw,
                   handled |-> <<ls[i]>> \o rest.handled]

\* One call of the data callback. No try surrounds it: a TypeError leaves the
\* callback as an uncaught exception and nothing more is called on res
PartsOnData(st, chunk) ==
    LET text == st.buffer \o ChunkToString(chunk)
        ls == Split(text)
        r == PartsForLoop(ls, 1)
    IN  [buffer |-> IF r.threw THEN text ELSE ls[Len(ls)],
         lines |-> st.lines \o r.handled,
         out |-> st.out \o r.calls,
         pc |-> IF r.threw THEN "uncaught" ELSE "reading"]

\* responseStream emits "data" with the next k bytes: any k for the first
\* arrival, all that is left for the second
PartsArrive ==
    /\ hpc = "streaming"
    /\ pc = "reading"
    /\ \E k \in 1..(Len(stream) - pos) :
        /\ pos = 0 \/ pos + k = Len(stream)
        /\ \E st \in {PartsOnData([buffer |-> buffer, lines |-> lines, out |-> out],
                                  SubSeq(stream, pos + 1, pos + k))} :
               /\ pos' = pos + k
               /\ cut' = IF pos = 0 THEN k ELSE cut
               /\ buffer' = st.buffer
               /\ lines' = st.lines
               /\ out' = st.out
               /\ pc' = st.pc
    /\ UNCHANGED <<stream, pending, connected, hvars, conns>>

\* responseStream emits "end": res.end()
PartsStreamEnd ==
    /\ hpc = "streaming"
    /\ pc = "reading"
    /\ pos = Len(stream)
    /\ out' = Append(out, EndCall)
    /\ pc' = "returned"
    /\ UNCHANGED <<stream, pos, cut, pending, buffer, lines, connected, hvars, conns>>

\* responseStream emits "error": res.status(500).end()
PartsStreamError ==
    /\ hpc = "streaming"
    /\ pc = "reading"
    /\ out' = out \o <<[call |-> "status", code |-> 500], EndCall>>
    /\ pc' = "failed"
    /\ UNCHANGED <<stream, pos, cut, pending, buffer, lines, connected, hvars, conns>>

NextParts ==
    \/ PartsHandle \/ UploadFetchRejects \/ UploadFetchResolves \/ UploadJsonRejects
    \/ UploadJsonResolves \/ PartsFetchRejects \/ PartsFetchResolves
    \/ PartsJsonResolves \/ PartsJsonRejects
    \/ PartsArrive \/ PartsStreamEnd \/ PartsStreamError

SpecParts == InitParts /\ [][NextParts]_vars

-----------------------------------------------------------------------------
(* Reading the calls on res and the dispatched lines *)

IsWrite(c) == c.call = "write"
IsEnd(c) == c.call = "end"
IsSentinel(c) == c = SentinelCall
IsChunk(c) == c.call = "write" /\ c.data.t = "object" /\ "choices" \in DOMAIN c.data.v
IsEnvelope(c) == c.call = "write" /\ c.data.t = "object" /\ "error" \in DOMAIN c.data.v
Delta(c) == c.data.v.choices[1].delta
FinishReason(c) == c.data.v.choices[1].finish_reason
IsTerminalChunk(c) == IsChunk(c) /\ FinishReason(c) = Str("stop")
IsContentChunk(c) == IsChunk(c) /\ FinishReason(c) = Null

EventOf(raw) == Get(ParseLine(raw), "event")
IsMessageLine(raw) == Is(EventOf(raw), "message")
IsDoneLine(raw) == Is(EventOf(raw), "done")
IsErrorLine(raw) == Is(EventOf(raw), "error")

\* The complete lines of the whole stream, in order
AllLines ==
    LET ls == Split(Decode(<<>>, stream).text) IN SubSeq(ls, 1, Len(ls) - 1)

\* All of the stream has arrived and been dealt with by the loop
Delivered == pos = Len(stream) /\ pc /= "failed"

\* The calls readStream has made on res: those that follow the header the
\* handler set before it called readStream
Written == SubSeq(out, Len(Fresh.out) + 1, Len(out))

\* The places in out where a terminal sequence starts: a chunk with
\* finish_reason "stop" or an error envelope, followed by the sentinel
TerminalStarts ==
    {i \in 1..(Len(out) - 1) :
        (IsTerminalChunk(out[i]) \/ IsEnvelope(out[i])) /\ IsSentinel(out[i + 1])}

-----------------------------------------------------------------------------
(* The claims *)

\* C1: on one connection the bridge emits at most one terminal sequence
\* (terminal chunk or error envelope, then the sentinel), whatever frames the
\* upstream sends.
C1_AtMostOneTerminal == Cardinality(TerminalStarts) <= 1

\* C2: once a done or error frame has been processed, nothing more is written
\* to the outbound stream: no write follows the sentinel of a terminal
\* sequence, in the same arrival or a later one.
C2_SilentAfterTerminal ==
    \A i \in TerminalStarts : \A j \in (i + 2)..Len(out) : ~IsWrite(out[j])

\* A message frame that carries a piece of the assistant's answer
IsAnswerLine(raw) ==
    LET message == Get(ParseLine(raw), "message")
    IN  /\ IsMessageLine(raw)
        /\ Is(Get(message, "role"), "assistant") /\ Is(Get(message, "type"), "answer")
        /\ Get(message, "content").t = "string" /\ ~Is(Get(message, "content"), "")

\* The stream is a known-good one: every line of it is an answer frame or a
\* done frame
KnownGood == \A i \in 1..Len(AllLines) : IsAnswerLine(AllLines[i]) \/ IsDoneLine(AllLines[i])

\* What the data listener of the streamed reply has called on res once the
\* whole stream has come in a single arrival
WholeArrival == PartsOnData([buffer |-> <<>>, lines |-> <<>>, out |-> Fresh.out], stream).out

\* C3: a known-good stream cut at any byte offset into two arrivals yields
\* the same calls on res, and so the same chunks, as the stream delivered in
\* a single arrival.
C3_SplitEqualsWhole ==
    (hpc = "streaming" /\ pc = "reading" /\ pos = Len(stream) /\ KnownGood)
        => out = WholeArrival

\* What a message line has to forward: the image URL of an image-typed line,
\* the content of any other line
Carried(raw) ==
    LET message == Get(ParseLine(raw), "message")
    IN  IF Is(Get(message, "content_type"), "image")
           /\ Get(message, "image").t = "object"
        THEN Get(Get(message, "image"), "url")
        ELSE Get(message, "content")

Forwards(raw) ==
    LET message == Get(ParseLine(raw), "message")
    IN  /\ IsMessageLine(raw)
        /\ Is(Get(message, "role"), "assistant")
        /\ Is(Get(message, "type"), "answer") \/ Is(Get(message, "content_type"), "image")
        /\ ~Is(Carried(raw), "")

ChunkCarries(c) ==
    IF "image" \in DOMAIN Delta(c) THEN Delta(c).image.v.url ELSE Delta(c).content

\* C4: the outbound chunks are in the order of their source lines, one chunk
\* for each qualifying line and none merged: what the non-terminal chunks
\* carry, in order, is what the qualifying lines of the stream carry, in order.
C4_OneChunkPerLineInOrder ==
    Delivered =>
        LET chunks == SelectSeq(out, IsContentChunk)
            sources == SelectSeq(AllLines, Forwards)
        IN  /\ Len(chunks) = Len(sources)
            /\ \A j \in 1..Len(chunks) : ChunkCarries(chunks[j]) = Carried(sources[j])

\* C5: for each done frame the bridge writes one chunk with finish_reason
\* "stop" and an empty delta, then the sentinel, then ends the response, in
\* this order and each once; the response is ended afterwards, which is what
\* the code has of the state TERMINATED.
C5_DoneSequence ==
    /\ Len(SelectSeq(out, IsTerminalChunk)) = Len(SelectSeq(lines, IsDoneLine))
    /\ \A i \in 1..Len(out) :
        IsTerminalChunk(out[i]) =>
            /\ DOMAIN Delta(out[i]) = {}
            /\ i + 2 <= Len(out)
            /\ out[i + 1] = SentinelCall
            /\ out[i + 2] = EndCall

C5_Witness ==
    /\ \E i \in 1..Len(lines) : IsDoneLine(lines[i])
    /\ \E i \in 1..Len(out) : IsTerminalChunk(out[i])

\* The message the envelope of an error line has to carry: the nested detailed
\* reason when the frame has one, the code and the message otherwise
Reason(raw) ==
    LET o == ParseLine(raw).v
    IN  IF "error_information" \in DOMAIN o THEN o.error_information.v.err_msg
        ELSE Str(Decimal(o.code.v) \o " " \o o.message.v)

\* C6: for each error frame the bridge writes one envelope of the shape
\* {error: {message, type}}, message being the nested detailed reason when the
\* frame has one and the code and message otherwise, then the sentinel, then
\* ends the response; it sets no status.
C6_ErrorEnvelopeSequence ==
    LET envelopes == SelectSeq(out, IsEnvelope)
        errors == SelectSeq(lines, IsErrorLine)
    IN  /\ Len(envelopes) = Len(errors)
        /\ \A j \in 1..Len(envelopes) :
            /\ DOMAIN envelopes[j].data.v.error = {"message", "type"}
            /\ envelopes[j].data.v.error.message = Reason(errors[j])
        /\ \A i \in 1..Len(out) :
            /\ out[i].call /= "status"
            /\ IsEnvelope(out[i]) =>
                /\ i + 2 <= Len(out)
                /\ out[i + 1] = SentinelCall
                /\ out[i + 2] = EndCall

\* C7: when the upstream ends with no done or error frame before it, the
\* outbound stream is closed, with no terminal chunk and no sentinel.
C7_ClosedOnEarlyEnd ==
    (pc = "returned" /\ \A i \in 1..Len(lines) : ~IsDoneLine(lines[i]) /\ ~IsErrorLine(lines[i]))
        => /\ \E i \in 1..Len(out) : IsEnd(out[i])
           /\ \A i \in 1..Len(out) : ~IsTerminalChunk(out[i]) /\ ~IsSentinel(out[i])

\* C8: on a transport error of the upstream the bridge ends the response at
\* once, and calls nothing on it afterwards.
C8_TransportErrorCloses ==
    [][/\ (pc = "reading" /\ pc' = "failed") => out' = Append(out, EndCall)
       /\ pc = "failed" => out' = out /\ pc' = "failed"]_vars

\* A line the upstream should not have sent: no data marker, no JSON object,
\* JSON that does not parse, or a message event without the fields it needs
Malformed(raw) ==
    LET message == Get(ParseLine(raw), "message")
    IN  \/ ParseLine(raw).t = "undefined"
        \/ IsMessageLine(raw) /\ message.t /= "object"
        \/ /\ IsMessageLine(raw)
           /\ Is(Get(message, "content_type"), "image")
           /\ Get(message, "image").t /= "object"

WellFormed(raw) == ~Malformed(raw)

\* C9: a malformed line is dropped without raising and without closing the
\* connection, and the frames after it produce what they produce without it.
C9_MalformedDropped ==
    Delivered =>
        /\ pc /= "caught"
        /\ Written = ForLoop(Append(SelectSeq(AllLines, WellFormed), <<>>), 1).calls

\* The predicate of C10 on a message line
Qualifies(raw) ==
    LET message == Get(ParseLine(raw), "message")
    IN  /\ Is(Get(message, "role"), "assistant")
        /\ Is(Get(message, "type"), "answer") \/ Is(Get(message, "content_type"), "image")
        /\ Get(message, "content").t = "string"
        /\ ~Is(Get(message, "content"), "")

\* C10: a message frame produces exactly one chunk, with finish_reason null,
\* if and only if its role is assistant, its type is answer or its
\* content_type is image, and its content is not empty; any other message
\* frame produces no output.
C10_ChunkIffQualifies ==
    (Len(lines) = 1 /\ IsMessageLine(lines[1]) /\ pc /= "failed") =>
        IF Qualifies(lines[1])
        THEN Len(Written) = 1 /\ IsContentChunk(Written[1])
        ELSE Written = <<>>

-----------------------------------------------------------------------------
(* The claims on the request handler *)

Called == fetched /= NoCall

\* The inbound message list, the uploaded file counted as its last message
Inbound == Messages(req)

IsTextMessage(m) ==
    /\ Get(m, "content_type").t = "undefined" \/ Is(Get(m, "content_type"), "text")
    /\ Get(m, "content").t = "string"

IsUrlImageMessage(m) ==
    /\ Is(Get(m, "content_type"), "image")
    /\ Get(m, "image_url").t = "string" /\ Get(m, "image_url").v /= ""

\* A message in one of the shapes the handler accepts
ValidMessage(m) == IsTextMessage(m) \/ IsUrlImageMessage(m)

\* The image reference of an image message: location and mime-type
Reference(m) ==
    Obj([url |-> Get(m, "image_url"),
         type |-> IF Get(m, "image_type").t = "string" THEN Get(m, "image_type")
                  ELSE Str("image/jpeg")])

\* The history entry e stands for the message m
Corresponds(e, m) ==
    /\ Get(e, "role") = Get(m, "role")
    /\ IF IsTextMessage(m)
       THEN Is(Get(e, "content_type"), "text") /\ Get(e, "content") = Get(m, "content")
       ELSE Is(Get(e, "content_type"), "image") /\ Get(e, "image") = Reference(m)

Body == fetched.body
History == fetched.body.chat_history.v

\* C11: for every list of n >= 1 valid messages, text or image, the
\* chat_history sent upstream has n - 1 entries, and its i-th entry stands for
\* the i-th message.
C11_HistoryIsAllButLast ==
    (Called /\ Len(Inbound) >= 1 /\ \A i \in 1..Len(Inbound) : ValidMessage(Inbound[i]))
        => /\ Len(History) = Len(Inbound) - 1
           /\ \A i \in 1..Len(History) : Corresponds(History[i], Inbound[i])

\* C12: when the last message is a text message, the upstream body carries its
\* text as query and has no image field, whatever the messages before it are.
C12_TextQueryFromLastAlone ==
    (Called /\ Len(Inbound) >= 1 /\ IsTextMessage(Inbound[Len(Inbound)]))
        => /\ "query" \in DOMAIN Body
           /\ Body.query = Get(Inbound[Len(Inbound)], "content")
           /\ "image" \notin DOMAIN Body

\* C13: when the last message is an image message, the upstream body carries
\* its image reference, location and mime-type, and no query.
C13_ImageQueryFromLast ==
    (Called /\ Len(Inbound) >= 1 /\ IsUrlImageMessage(Inbound[Len(Inbound)]))
        => /\ "image" \in DOMAIN Body
           /\ Body.image = Reference(Inbound[Len(Inbound)])
           /\ "query" \notin DOMAIN Body

C13_Witness ==
    /\ Called
    /\ Len(Inbound) >= 2
    /\ Inbound[Len(Inbound)] = MImage
    /\ IsTextMessage(Inbound[1])
    /\ Body.image.v.type = Str("image/png")

VisionUrl == "https://api.coze.cn/v3/vision/chat?"
ChatUrl == "https://api.coze.cn/v3/chat?"
\* The plain chat endpoint, with or without the empty query string
PlainUrls == {ChatUrl, "https://api.coze.cn/v3/chat"}

\* The outgoing payload holds an image: as the current turn, in its history,
\* or as an attachment
PayloadHasImage ==
    \/ "image" \in DOMAIN Body
    \/ \E i \in 1..Len(History) : Is(Get(History[i], "content_type"), "image")
    \/ /\ "attachments" \in DOMAIN Body
       /\ \E i \in 1..Len(Body.attachments.v) :
             Is(Get(Body.attachments.v[i], "type"), "image")

\* C14: the upstream call goes to the vision endpoint if and only if the
\* outgoing payload holds an image, and to the plain chat endpoint otherwise.
C14_VisionIffImage ==
    Called => /\ fetched.url \in {VisionUrl} \cup PlainUrls
              /\ fetched.url = VisionUrl <=> PayloadHasImage

Done == hpc = "done"

NonStreaming == ~Truthy(StreamFlag(req))

TextOnly == \A i \in 1..Len(Inbound) : IsTextMessage(Inbound[i])

\* The upstream's reply body parsed: its embedded code, its messages
Parsed == reply.ok /\ reply.body.t = "object"
ReplyMessages ==
    IF Get(reply.body, "messages").t = "array" THEN Get(reply.body, "messages").v ELSE <<>>

\* The message is one the non-streaming branch may answer with
IsQualifying(m) ==
    /\ Is(Get(m, "role"), "assistant")
    /\ Is(Get(m, "type"), "answer") \/ Is(Get(m, "content_type"), "image")

Qualifying == {i \in 1..Len(ReplyMessages) : IsQualifying(ReplyMessages[i])}

\* A response is a completion document
IsCompletion(r) == r.status = 200 /\ Is(Get(r.body, "object"), "chat.completion")

\* C15: for a text-only non-streaming request, a successful reply (embedded
\* code 0) that holds exactly one qualifying answer message, not an image
\* one, is answered with exactly one JSON document whose finish_reason is
\* "stop" and whose choices[0].message.content is that message's content,
\* character for character.
C15_OneDocumentVerbatim ==
    (/\ Done /\ Called /\ NonStreaming /\ TextOnly /\ Parsed
     /\ Get(reply.body, "code") = Num(0)
     /\ Cardinality(Qualifying) = 1
     /\ \A i \in Qualifying : ~Is(Get(ReplyMessages[i], "content_type"), "image"))
        => /\ Len(sent) = 1
           /\ IsCompletion(sent[1])
           /\ \E i \in Qualifying :
                \E choice \in {Get(sent[1].body, "choices").v[1]} :
                    /\ Is(Get(choice, "finish_reason"), "stop")
                    /\ Get(Get(choice, "message"), "content")
                           = Get(ReplyMessages[i], "content")

\* The error envelope of a response carries the text
Carries(r, text) ==
    /\ Get(r.body, "error").t = "object"
    /\ Get(Get(r.body, "error"), "message") = text

\* C16: in the non-streaming branch, a reply whose embedded code is not zero
\* is answered with HTTP 500 and an error envelope that carries the reply's
\* msg, and with no completion document.
C16_NonZeroCodeIs500WithMsg ==
    (/\ Done /\ NonStreaming /\ Parsed
     /\ Get(reply.body, "code").t = "number" /\ Get(reply.body, "code") /= Num(0)
     /\ Get(reply.body, "msg").t = "string")
        => /\ Len(sent) = 1
           /\ sent[1].status = 500
           /\ Carries(sent[1], Get(reply.body, "msg"))
           /\ ~IsCompletion(sent[1])

C16_Witness ==
    /\ Done /\ NonStreaming /\ Parsed
    /\ Get(reply.body, "code") = Num(1)
    /\ Len(sent) = 1
    /\ sent[1].status = 500
    /\ Carries(sent[1], Str("boom"))

\* C17: in the non-streaming branch, a reply that reports success and whose
\* messages list holds no message with role assistant and type answer or
\* content_type image is answered with HTTP 500 and with no completion
\* document.
C17_NoAnswerIs500 ==
    (/\ Done /\ NonStreaming /\ Parsed
     /\ Get(reply.body, "code") = Num(0)
     /\ Get(reply.body, "messages").t = "array"
     /\ Qualifying = {})
        => /\ Len(sent) = 1
           /\ sent[1].status = 500
           /\ ~IsCompletion(sent[1])

C17_Witness ==
    /\ Done /\ NonStreaming /\ Parsed
    /\ Get(reply.body, "code") = Num(0) /\ Is(Get(reply.body, "msg"), "success")
    /\ Len(ReplyMessages) = 2 /\ Qualifying = {}
    /\ sent = <<NoAnswer>>

\* The part of a header behind its "Bearer " prefix
TokenPart(h) == SubSeq(Chars(h.v), Len("Bearer ") + 1, Len(h.v))

\* The header has the form `Bearer <non-empty token>`
WellFormedHeader(h) ==
    /\ h.t = "string"
    /\ StartsWith(Chars(h.v), Chars("Bearer "))
    /\ TokenPart(h) /= <<>>

\* C18: a request whose Authorization header is absent or not of the form
\* `Bearer <non-empty token>` is answered with a 401 whose body is
\* {code: 401, errmsg}, and no upstream call is made for it.
C18_MalformedAuthIs401 ==
    (hpc /= "start" /\ ~WellFormedHeader(req.authorization))
        => /\ ~Called
           /\ Done
           /\ Len(sent) = 1
           /\ sent[1].status = 401
           /\ sent[1].body.t = "object"
           /\ DOMAIN sent[1].body.v = {"code", "errmsg"}
           /\ Get(sent[1].body, "code") = Num(401)
           /\ Get(sent[1].body, "errmsg").t = "string"

\* C19: for every accepted request, the bearer token sent to the upstream is
\* the whole token part of the inbound Authorization header, everything behind
\* the "Bearer " prefix, unchanged.
C19_TokenPassedVerbatim ==
    Called =>
        /\ StartsWith(fetched.authorization, Chars("Bearer "))
        /\ SubSeq(fetched.authorization, Len("Bearer ") + 1, Len(fetched.authorization))
               = TokenPart(req.authorization)

\* The response body forwards the upstream's error body: as the body itself
\* or as one of its properties
ForwardsBody(r, errorBody) ==
    \/ r.body = errorBody
    \/ /\ r.body.t = "object"
       /\ \E k \in DOMAIN r.body.v : r.body.v[k] = errorBody

\* C20: when the upstream chat call returns a status outside 2xx, the client
\* receives a 500 or the upstream's status, and the response body forwards the
\* upstream's error body.
C20_UpstreamErrorForwarded ==
    (Done /\ Called /\ ~reply.ok /\ reply.status /= 0 /\ reply.body.t = "string")
        => /\ Len(sent) = 1
           /\ sent[1].status \in {500, reply.status}
           /\ ForwardsBody(sent[1], reply.body)

-----------------------------------------------------------------------------
(* The claims on time, validation and configuration *)

\* C21: in the non-streaming branch, when the upstream call has not completed
\* within the upper bound of 30 seconds, the call is aborted and the client
\* has been answered with a 504: the request does not go on waiting.
C21_TimeoutIs504 ==
    (hpc = "overdue" /\ NonStreaming)
        => /\ Len(sent) = 1
           /\ sent[1].status = 504

\* The bearer token check lets the request through
Accepted == Authorize(req.authorization).ok

\* C22: a request that holds a message in none of the accepted shapes (an
\* unrecognized content_type, an image message without a location) is
\* answered with a 400 and no upstream call is made for it.
C22_InvalidShapeIs400 ==
    (/\ hpc /= "start" /\ Accepted
     /\ \E i \in 1..Len(Inbound) : ~ValidMessage(Inbound[i]))
        => /\ ~Called
           /\ Len(sent) = 1
           /\ sent[1].status = 400

\* The value is a base64 data URL
IsDataUrl(v) == v.t = "string" /\ StartsWith(Chars(v.v), Chars("data:"))

\* The inbound messages that carry an image as a base64 data URL
DataImages ==
    {i \in 1..Len(Inbound) :
        Is(Get(Inbound[i], "content_type"), "image")
            /\ IsDataUrl(Get(Inbound[i], "image_url"))}

\* The file-upload calls made on the upstream so far
Uploads == {k \in 1..Len(effects) : effects[k].call = "upload"}

\* The body of the chat call holds a raw base64 payload
BodyHoldsData ==
    \/ "image" \in DOMAIN Body /\ IsDataUrl(Get(Body.image, "url"))
    \/ \E i \in 1..Len(History) : IsDataUrl(Get(Get(History[i], "image"), "url"))

\* C23: for a request that carries an image as a base64 data URL, one
\* file-upload call per such image has been made by the time the chat call is
\* issued, and the body of the chat call holds no raw base64 payload.
C23_DataUrlUploadedNotForwarded ==
    (Called /\ DataImages /= {})
        => /\ Cardinality(Uploads) = Cardinality(DataImages)
           /\ ~BodyHoldsData

-----------------------------------------------------------------------------
(* The claims on the uploaded file *)

\* The deletion of the request's temporary file has been called for
DeletionScheduled ==
    \E k \in 1..Len(effects) :
        /\ effects[k].call \in {"unlink", "setTimeout"}
        /\ effects[k].path = Get(req.file, "path")

\* C24: for a request that arrives with an uploaded file, the deletion of the
\* temporary file is scheduled on every exit path of the request: upstream
\* success and upstream failure (non-2xx, timeout, network error).
C24_FileDeletedOnEveryExit ==
    (Done /\ Called /\ Truthy(req.file)) => DeletionScheduled

-----------------------------------------------------------------------------
(* The claims on the client's connection *)

\* The write calls made on the response so far
Writes == {k \in 1..Len(out) : out[k].call = "write"}

\* C25: once the client has disconnected from a streamed response, the bridge
\* makes no further write on the outbound connection, whatever frames the
\* upstream goes on sending.
C25_NoWriteAfterDisconnect ==
    [][~connected => Cardinality(Writes') = Cardinality(Writes)]_vars

\* What readStream has made of the first n arrivals of a connection that
\* runs alone: the stream s cut at byte offset k
AloneAfter(s, k, n) ==
    IF n = 0 THEN Fresh
    ELSE IF n = 1 THEN OnData(Fresh, SubSeq(s, 1, k))
    ELSE OnData(OnData(Fresh, SubSeq(s, 1, k)), SubSeq(s, k + 1, Len(s)))

\* The arrivals connection c has had
Arrivals(c) ==
    IF conns.conn[c].pos = 0 THEN 0
    ELSE IF conns.conn[c].pos = conns.conn[c].cut THEN 1 ELSE 2

\* The outbound sequence of connection c had it run alone
AloneOut(c) ==
    AloneAfter(conns.conn[c].stream, conns.conn[c].cut, Arrivals(c)).out
        \o (IF conns.conn[c].pc = "failed" THEN <<EndCall>> ELSE <<>>)

\* C26: for two streamed responses in progress at once and any interleaving
\* of their upstream arrivals, the outbound sequence of each connection is the
\* one it produces when it runs alone.
C26_ConnectionsIndependent ==
    \A c \in Conns : conns.conn[c].out = AloneOut(c)

C26_Witness ==
    /\ conns.conn[1].pos = conns.conn[1].cut
    /\ conns.conn[1].pos < Len(conns.conn[1].stream)
    /\ conns.env[1].buffer /= <<>>
    /\ conns.conn[2].pos = Len(conns.conn[2].stream)
    /\ conns.conn[2].cut < Len(conns.conn[2].stream)
    /\ conns.conn[2].out /= <<>>

-----------------------------------------------------------------------------
(* The claims on the bot identity *)

\* The table has an entry for the request's model
HasEntry == req.model.t = "string" /\ req.model.v \in DOMAIN BotConfig.v

HasDefault == req.bot_id_env.t = "string" /\ req.bot_id_env.v /= ""

\* C27: the bot identity sent upstream is the table's entry for the request's
\* model when there is one and the configured default otherwise; when there
\* is neither, the request is answered with a 4xx or 5xx and no upstream call
\* is made.
C27_BotIdentityOrError ==
    /\ (Called /\ HasEntry) => Body.bot_id = BotConfig.v[req.model.v]
    /\ (Called /\ ~HasEntry /\ HasDefault) => Body.bot_id = req.bot_id_env
    /\ (hpc /= "start" /\ Accepted /\ ~HasEntry /\ ~HasDefault)
            => /\ ~Called
               /\ Len(sent) = 1
               /\ sent[1].status >= 400

-----------------------------------------------------------------------------
(* The claims on typed content parts and on the empty message list *)

\* The parts of the final message, when it is a typed list
FinalParts ==
    IF req.messages /= <<>> /\ Get(req.messages[Len(req.messages)], "content").t = "array"
    THEN Get(req.messages[Len(req.messages)], "content").v
    ELSE <<>>

TextParts == {i \in 1..Len(FinalParts) : Is(Get(FinalParts[i], "type"), "text")}

\* C28: for a final message given as a typed list of content parts, the query
\* sent upstream is the text of the first text part, and at most one image,
\* the first, is uploaded and forwarded: later parts change nothing.
C28_FirstPartsWin ==
    (Called /\ FinalParts /= <<>>)
        => /\ \A i \in TextParts :
                (\A j \in TextParts : i <= j) => Body.query = Get(FinalParts[i], "text")
           /\ Cardinality(Uploads) <= 1
           /\ "attachments" \in DOMAIN Body => Len(Body.attachments.v) <= 1

\* C29: for a request whose message list is empty, with no file attached,
\* the upstream request is issued with an empty history and with the empty
\* text as its query.
C29_EmptyListEmptyQuery ==
    (hpc /= "start" /\ Accepted /\ Inbound = <<>>)
        => /\ Called
           /\ History = <<>>
           /\ "query" \in DOMAIN Body
           /\ Body.query = Str("")

\* A message line with role assistant and content_type image
IsImageLine(raw) ==
    LET message == Get(ParseLine(raw), "message")
    IN  /\ IsMessageLine(raw)
        /\ Is(Get(message, "role"), "assistant")
        /\ Is(Get(message, "content_type"), "image")

\* The delta of an image chunk whose url and type are those of the frame
ImageDelta(raw) ==
    LET image == Get(Get(ParseLine(raw), "message"), "image")
    IN  Json([content |-> Str(Placeholder),
              image |-> Obj(Json([url |-> Get(image, "url"),
                                  type |-> Get(image, "type")]))])

\* C30: a streamed message frame with role assistant and content_type image,
\* with or without an image payload, yields either one chunk whose delta is
\* {content: placeholder, image: {url, type}} with the frame's url and type,
\* or nothing; the stream is never failed or closed because of that frame.
C30_ImageFrameNeverCloses ==
    (Len(lines) = 1 /\ IsImageLine(lines[1]) /\ pc /= "failed") =>
        /\ pc /= "caught"
        /\ \A i \in 1..Len(out) : ~IsEnd(out[i])
        /\ \/ Written = <<>>
           \/ /\ Len(Written) = 1
              /\ IsContentChunk(Written[1])
              /\ Delta(Written[1]) = ImageDelta(lines[1])

-----------------------------------------------------------------------------
(* The claims on the lifetime of a request *)

\* The calls made so far that delete, or schedule the deletion of, the
\* request's temporary file
Deletions ==
    {k \in 1..Len(effects) :
        /\ effects[k].call \in {"unlink", "setTimeout"}
        /\ effects[k].path = Get(req.file, "path")}

\* C31: for an uploaded temporary file the deletion is attempted exactly once
\* over the lifetime of the request, whatever the outcome: never zero times,
\* never twice.
C31_DeletedExactlyOnce ==
    /\ Truthy(req.file) => Cardinality(Deletions) <= 1
    /\ (Done /\ Truthy(req.file)) => Cardinality(Deletions) = 1

-----------------------------------------------------------------------------
(* The claims on ignored frames *)

\* A parsed frame whose event is none of message, done and error
IsIgnoredLine(raw) ==
    /\ ParseLine(raw).t = "object"
    /\ ~IsMessageLine(raw) /\ ~IsDoneLine(raw) /\ ~IsErrorLine(raw)

Recognized(raw) == ~IsIgnoredLine(raw)

\* The stream without its ignored lines, each line with its line break back
RECURSIVE Unsplit(_)
Unsplit(ls) == IF ls = <<>> THEN <<>> ELSE Head(ls) \o <<"\n">> \o Unsplit(Tail(ls))

\* C32: a ping frame, or a frame of an event kind the bridge does not know,
\* changes nothing: nothing is written for it, the stream is not closed, and
\* the bridge ends in the state it reaches on the same stream without these
\* frames.
C32_IgnoredFramesChangeNothing ==
    Delivered =>
        \E st \in {OnData(Fresh, Utf8(Unsplit(SelectSeq(AllLines, Recognized))))} :
            /\ out = st.out
            /\ buffer = st.buffer
            /\ pending = st.pending
            /\ pc \in {st.pc, "returned"}

C32_Witness ==
    /\ Delivered
    /\ Len(AllLines) = 2
    /\ IsIgnoredLine(AllLines[1])
    /\ EventOf(AllLines[1]) = Str("conversation.chat.created")
    /\ Len(Written) = 1
    /\ IsContentChunk(Written[1])
    /\ 0 < cut /\ cut < Len(stream)

-----------------------------------------------------------------------------
(* The claims on the decoder and the frame buffer *)

Has(text, c) == \E i \in 1..Len(text) : text[i] = c

\* The first arrival ends between the two bytes of a character
SplitInCharacter == 0 < cut /\ cut < Len(stream) /\ stream[cut] = Lead

\* The text decoded so far: the lines dealt with and the buffer
TextSoFar == Unsplit(lines) \o buffer

\* C33: a character whose bytes are split across two arrivals is decoded to
\* the same character as when the bytes arrive together: the partial sequence
\* is carried across the arrivals, and what is emitted does not change.
C33_SplitCharacterCarried ==
    (SplitInCharacter /\ hpc = "streaming" /\ pc = "reading") =>
        /\ ~Has(TextSoFar, Replacement)
        /\ pos = Len(stream) =>
            /\ TextSoFar = Decode(<<>>, stream).text
            /\ \A i \in 1..Len(out) :
                  IsContentChunk(out[i]) => ~Has(Chars(Delta(out[i]).content.v), Replacement)

-----------------------------------------------------------------------------
(* The claims on the non-streaming answer *)

\* C34: in the non-streaming branch the embedded status code alone decides
\* on an application-level failure: a reply with code 0 that holds a
\* qualifying answer message is answered with the success document,
\* whatever its msg says.
C34_CodeAloneDecides ==
    (/\ Done /\ NonStreaming /\ Parsed
     /\ Get(reply.body, "code") = Num(0)
     /\ Qualifying /= {})
        => Len(sent) = 1 /\ IsCompletion(sent[1])

\* The decoded text of the bytes received so far
Received == Decode(<<>>, SubSeq(stream, 1, pos)).text

\* What follows the last line break of a text
AfterLastBreak(text) == Split(text)[Len(Split(text))]

\* C35: after each arrival has been processed the frame buffer holds no line
\* break and is exactly the decoded text received so far that follows the
\* last line break: no complete line is kept, and nothing of the incomplete
\* line is lost or doubled.
C35_BufferIsIncompleteLine ==
    pc /= "caught" =>
        /\ ~Has(buffer, "\n")
        /\ buffer = AfterLastBreak(Received)

C35_Witness ==
    /\ pc = "reading"
    /\ 0 < cut /\ pos = cut /\ cut < Len(stream)
    /\ Len(lines) = 1
    /\ buffer /= <<>>
    /\ buffer = AfterLastBreak(Received)

-----------------------------------------------------------------------------
(* The claims on the end of a stream *)

StopChunks == {i \in 1..Len(out) : IsTerminalChunk(out[i])}
DoneLines == {j \in 1..Len(lines) : IsDoneLine(lines[j])}

\* C36: a chunk with finish_reason "stop" is written only in response to a
\* done frame of the upstream, never on an error frame, on an early end of the
\* upstream or on a transport failure, and each such chunk is followed at
\* once by the sentinel.
C36_StopOnlyOnDone ==
    /\ Cardinality(StopChunks) = Cardinality(DoneLines)
    /\ \A i \in StopChunks : i < Len(out) /\ IsSentinel(out[i + 1])

C36_Witness ==
    /\ pc \in {"returned", "failed"}
    /\ \E j \in 1..Len(lines) : IsErrorLine(lines[j])
    /\ \E i \in 1..Len(out) : IsEnvelope(out[i])
    /\ Cardinality(StopChunks) = 1

-----------------------------------------------------------------------------
(* The claims on the responses of the handler *)

\* C37: a non-streaming request gets exactly one response, one status and
\* one body, on every path (401, failed upload, upstream status outside 2xx,
\* unparsable body, application error, no answer, exception, success): never
\* two, and none of the paths ends without one.
C37_ExactlyOneResponse ==
    NonStreaming =>
        /\ Len(sent) <= 1
        /\ Done <=> Len(sent) = 1
        /\ hpc \in {"start", "fetching", "overdue", "reading_text", "parsing", "done"}

C37_Witness ==
    /\ NonStreaming /\ Done
    /\ ~reply.ok /\ reply.status = 502
    /\ sent = <<UpstreamFailed>>

\* C38: for a request with an uploaded file, the temporary file is not
\* deleted before the upstream call that carries its URL has completed:
\* while the upstream may still fetch the URL, the file is on disk.
C38_FileKeptDuringCall ==
    (Truthy(req.file) /\ Called /\ Awaiting) =>
        \A k \in Deletions : effects[k].call /= "unlink"

\* C39: a multipart request that is rejected with 401 leaves no uploaded
\* temporary file behind: no file was stored for it, or the stored file is
\* deleted or scheduled for deletion.
C39_RejectedLeavesNoFile ==
    (Done /\ Len(sent) = 1 /\ sent[1].status = 401) =>
        ~Truthy(req.file) \/ Deletions /= {}

\* C40: a frame is acted on only once its line break has arrived: when the
\* upstream ends while the buffer holds an unterminated last line, be it a
\* whole done or message payload, that line yields no chunk, no terminal
\* chunk and no sentinel.
C40_UnterminatedLineYieldsNothing ==
    pc = "returned" =>
        /\ lines = AllLines
        /\ out = OnData(Fresh, Utf8(Unsplit(AllLines))).out

C40_Witness ==
    /\ pc = "returned"
    /\ IsDoneLine(buffer)
    /\ Len(Written) = 1 /\ IsContentChunk(Written[1])
    /\ StopChunks = {}
    /\ \A i \in 1..Len(out) : ~IsSentinel(out[i])

====
